---- MODULE Spec2Model ----
(***************************************************************************)
(* A model of the sundial shadow-mapping application: the solar time       *)
(* functions (utils/astronomy.js), the per-frame render pipeline (depth    *)
(* pass, lighting pass) and the shadow sampling of the fragment shaders.   *)
(*                                                                         *)
(* JavaScript numbers are modelled in fixed point.  A value written "x8"   *)
(* is the real number x8 / 10^8, "x6" is x6 / 10^6.  TLC integers are 32   *)
(* bit, so products are formed from 4-digit halves (MulF).  Angles are     *)
(* kept as exact rationals of a quarter turn until a sine or cosine is     *)
(* taken: degrees are carried in hundredths of a degree.                   *)
(***************************************************************************)
EXTENDS Integers, Sequences, FiniteSets, TLC

(***************************************************************************)
(* Fixed-point arithmetic                                                  *)
(***************************************************************************)
Abs(x) == IF x < 0 THEN -x ELSE x

Sign(x) == IF x < 0 THEN -1 ELSE 1

Max(a, b) == IF a >= b THEN a ELSE b

Min(a, b) == IF a <= b THEN a ELSE b

\* Division rounding to the nearest integer (ties away from zero), b > 0.
RDiv(a, b) == Sign(a) * ((Abs(a) + b \div 2) \div b)

\* a * b / 10^8 for a, b at scale 10^8 (|a|, |b| below 10^9), without
\* leaving 32 bits: the operands are split in 4-digit halves.
MulF(a, b) ==
    LET aa == Abs(a)
        bb == Abs(b)
        ah == aa \div 10000
        al == aa % 10000
        bh == bb \div 10000
        bl == bb % 10000
        p  == ah * bh + ((ah * bl + al * bh) + ((al * bl) \div 10000) + 5000) \div 10000
    IN  Sign(a) * Sign(b) * p

Pow10(n) ==
    CASE n = 0 -> 1 [] n = 1 -> 10 [] n = 2 -> 100 [] n = 3 -> 1000
      [] n = 4 -> 10000 [] n = 5 -> 100000 [] n = 6 -> 1000000
      [] n = 7 -> 10000000 [] OTHER -> 100000000

\* num / den at scale 10^digits for 0 <= num < den < 2 * 10^8, by long
\* division: one decimal digit at a time, so no product leaves 32 bits.
RECURSIVE LongDiv(_, _, _)
LongDiv(rem, den, digits) ==
    IF digits = 0 THEN 0
    ELSE LET r10 == rem * 10
         IN  (r10 \div den) * Pow10(digits - 1) + LongDiv(r10 % den, den, digits - 1)

(***************************************************************************)
(* Math.sin, Math.cos, Math.atan2 (results at scale 10^8)                  *)
(***************************************************************************)
PI8 == 314159265

HALF_PI8 == 157079633

QUARTER_PI8 == 78539816

ONE8 == 100000000

\* The angle (pi/2) * r / d in radians, 0 <= r <= d <= 9000.
QuarterAngle(r, d) ==
    LET hi == 15707 * r
    IN  (hi \div d) * 10000 + (((hi % d) * 10000 + 9633 * r) \div d)

\* Horner form of the sine series: sin x = x * SinH(x^2, 1).
RECURSIVE SinH(_, _)
SinH(x2, k) ==
    IF k > 8 THEN ONE8
    ELSE ONE8 - RDiv(MulF(x2, SinH(x2, k + 1)), (2 * k) * (2 * k + 1))

\* Horner form of the cosine series: cos x = CosH(x^2, 1).
RECURSIVE CosH(_, _)
CosH(x2, k) ==
    IF k > 8 THEN ONE8
    ELSE ONE8 - RDiv(MulF(x2, CosH(x2, k + 1)), (2 * k - 1) * (2 * k))

SinSeries(x8) == MulF(x8, SinH(MulF(x8, x8), 1))

CosSeries(x8) == CosH(MulF(x8, x8), 1)

\* sin of n quarter-turn fractions: the angle is (pi/2) * n / d, n any
\* integer.  The quadrant is reduced exactly, on the integers.
Sin(n, d) ==
    LET m == n % (4 * d)
        q == m \div d
        x == QuarterAngle(m % d, d)
    IN  CASE q = 0 -> SinSeries(x)
          [] q = 1 -> CosSeries(x)
          [] q = 2 -> -SinSeries(x)
          [] OTHER -> -CosSeries(x)

Cos(n, d) == Sin(n + d, d)

\* Math.sin / Math.cos of deg * Math.PI / 180, deg in hundredths of a degree.
SinDeg(deg) == Sin(deg, 9000)

CosDeg(deg) == Cos(deg, 9000)

\* Math.sin / Math.cos of an angle in radians at scale 10^8, 0 <= x8 <= pi.
SinRad(x8) == IF x8 <= HALF_PI8 THEN SinSeries(x8) ELSE SinSeries(PI8 - x8)

CosRad(x8) == IF x8 <= HALF_PI8 THEN CosSeries(x8) ELSE -CosSeries(PI8 - x8)

\* atan u = u * AtanH(u^2, 0) for |u| <= tan(pi/8).
RECURSIVE AtanH(_, _)
AtanH(u2, k) ==
    IF k >= 11 THEN RDiv(ONE8, 2 * k + 1)
    ELSE RDiv(ONE8, 2 * k + 1) - MulF(u2, AtanH(u2, k + 1))

AtanSeries(u8) == MulF(u8, AtanH(MulF(u8, u8), 0))

\* atan(num / den) for 0 <= num <= den, den > 0: in [0, pi/4].
AtanRatio(num, den) ==
    IF num = den THEN QUARTER_PI8
    ELSE LET t == LongDiv(num, den, 8)
         IN  IF t <= 41421356 THEN AtanSeries(t)
             ELSE QUARTER_PI8 - AtanSeries(LongDiv(ONE8 - t, ONE8 + t, 8))

\* Math.atan2(y, x), the angle of the point (x, y) in (-pi, pi].
Atan2(y, x) ==
    LET ay == Abs(y)
        ax == Abs(x)
        a  == IF ax = 0 /\ ay = 0 THEN 0
              ELSE IF ay <= ax THEN AtanRatio(ay, ax)
              ELSE HALF_PI8 - AtanRatio(ax, ay)
        b  == IF x < 0 THEN PI8 - a ELSE a
    IN  IF y < 0 THEN -b ELSE b

(***************************************************************************)
(* Number.prototype.toString and String.prototype.padStart                 *)
(***************************************************************************)
DigitChar(d) ==
    CASE d = 0 -> "0" [] d = 1 -> "1" [] d = 2 -> "2" [] d = 3 -> "3"
      [] d = 4 -> "4" [] d = 5 -> "5" [] d = 6 -> "6" [] d = 7 -> "7"
      [] d = 8 -> "8" [] OTHER -> "9"

RECURSIVE NatToString(_)
NatToString(n) ==
    IF n < 10 THEN DigitChar(n)
    ELSE NatToString(n \div 10) \o DigitChar(n % 10)

\* (n).toString() of an integer n.
IntToString(n) == IF n < 0 THEN "-" \o NatToString(-n) ELSE NatToString(n)

\* s.padStart(targetLength, "0")
RECURSIVE PadStart(_, _)
PadStart(s, targetLength) ==
    IF Len(s) >= targetLength THEN s ELSE PadStart("0" \o s, targetLength)

(***************************************************************************)
(* utils/astronomy.js                                                      *)
(***************************************************************************)
\* Variant with 13.87 for the coefficient 9.87.
equationOfTimeWide(dayOfYear) ==
    LET B == 4 * (dayOfYear - 81)
    IN  MulF(1387000000, Sin(2 * B, 365))
          - MulF(753000000, Cos(B, 365))
          - MulF(150000000, Sin(B, 365))

\* equationOfTime(dayOfYear), in minutes at scale 10^8.
\* B = 2 pi (dayOfYear - 81) / 365 is 4 (dayOfYear - 81) / 365 quarter turns.
equationOfTime(dayOfYear) ==
    LET B == 4 * (dayOfYear - 81)
    IN  MulF(987000000, Sin(2 * B, 365))
          - MulF(753000000, Cos(B, 365))
          - MulF(150000000, Sin(B, 365))

months ==
    << "Gen", "Feb", "Mar", "Apr", "Mag", "Giu",
       "Lug", "Ago", "Set", "Ott", "Nov", "Dic" >>

daysInMonth == << 31, 28, 31, 30, 31, 30, 31, 31, 30, 31, 30, 31 >>

\* Variant of the loop condition that leaves a month one day early.
MonthExceededEarly(dayInMonth, month) == dayInMonth >= daysInMonth[month + 1]

\* dayInMonth > daysInMonth[month] (month counted from 0 as in the code)
MonthExceeded(dayInMonth, month) == dayInMonth > daysInMonth[month + 1]

\* while (dayInMonth > daysInMonth[month]) { dayInMonth -= ...; month++ }
RECURSIVE DateLoop(_, _)
DateLoop(dayInMonth, month) ==
    IF month < 12 /\ MonthExceeded(dayInMonth, month)
    THEN DateLoop(dayInMonth - daysInMonth[month + 1], month + 1)
    ELSE [dayInMonth |-> dayInMonth, month |-> month]

\* `${dayInMonth} ${months[month]}`; past the table months[month] is
\* undefined.
dayOfYearToDateString(day) ==
    LET r == DateLoop(day, 0)
    IN  IntToString(r.dayInMonth) \o " "
          \o (IF r.month < 12 THEN months[r.month + 1] ELSE "undefined")

\* The part shared by calculateTimeFromSun and calculateShadowTime: from
\* the civil time (minutes at scale 10^6) to the string that is returned.
\*   hours = floor(civilTime); minutes = floor((civilTime - hours) * 60)
FloorHours(civilMin6) == civilMin6 \div 60000000

FloorMinutes(civilMin6) == (civilMin6 - FloorHours(civilMin6) * 60000000) \div 1000000

\* Variant with the upper limit one hour later.
OutOfRangeHoursTo18(hours) == hours < 6 \/ hours > 18

OutOfRangeHours(hours) == hours < 6 \/ hours > 17

FormatTime(hours, minutes) ==
    PadStart(IntToString(hours), 2) \o ":" \o PadStart(IntToString(minutes), 2)

TimeString(civilMin6) ==
    IF OutOfRangeHours(FloorHours(civilMin6)) THEN "Fuori orario"
    ELSE FormatTime(FloorHours(civilMin6), FloorMinutes(civilMin6))

\* eot / 60 hours, kept in minutes at scale 10^6.
EotMin6(dayOfYear) == RDiv(equationOfTime(dayOfYear), 100)

\* solarHour = (azimuth - 90) / 15 + 6, in minutes at scale 10^6
\* (azimuth in hundredths of a degree: one hundredth is 0.04 minutes).
SolarHourMin6(azimuth) == (azimuth - 9000) * 40000 + 360000000

\* Variant with the horizon itself excluded.
IsNightElevationStrict(elevation) == elevation < 0

\* elevation <= 0
IsNightElevation(elevation) == elevation <= 0

\* Variant with the two ends of the dial excluded.
AzimuthNotVisibleClosed(azimuth) == azimuth >= 27000 \/ azimuth <= 9000

\* azimuth > 270 || azimuth < 90
AzimuthNotVisible(azimuth) == azimuth > 27000 \/ azimuth < 9000

calculateTimeFromSun(azimuth, elevation, dayOfYear) ==
    IF IsNightElevation(elevation) THEN "Notte"
    ELSE IF AzimuthNotVisible(azimuth) THEN "Sole non visibile"
    ELSE TimeString(SolarHourMin6(azimuth) - EotMin6(dayOfYear))

\* Variant with the threshold at the horizon.
IsNightDirectionAtHorizon(lightDir) == lightDir[2] >= 0

\* lightDirection[1] >= -0.01
IsNightDirection(lightDir) == lightDir[2] >= -1000000

\* Variant without the negation of the Z component.
ShadowAngleMirrored(lightDir) == Atan2(lightDir[1], lightDir[3])

\* shadowAngle = Math.atan2(lightDirection[0], -lightDirection[2])
ShadowAngle(lightDir) == Atan2(lightDir[1], -lightDir[3])

\* exactHour = 12 - (shadowAngle * 6) / (Math.PI / 2), in minutes at scale
\* 10^6: 720 - shadowAngle * 360 / (pi / 2).
ExactHourMin6(shadowAngle8) == 720000000 - MulF(shadowAngle8, 229183118)

calculateShadowTime(lightDir, dayOfYear) ==
    IF IsNightDirection(lightDir) THEN "Notte"
    ELSE TimeString(ExactHourMin6(ShadowAngle(lightDir)) - EotMin6(dayOfYear))

\* Variant with the sign of the Y component lost.
LightDirectionUp(azimuth, elevation) ==
    << MulF(SinDeg(azimuth), CosDeg(elevation)),
       SinDeg(elevation),
       MulF(CosDeg(azimuth), CosDeg(elevation)) >>

\* The light direction of calculateLighting (and of sundial.js render):
\* [sin az cos el, -sin el, cos az cos el].
LightDirection(azimuth, elevation) ==
    << MulF(SinDeg(azimuth), CosDeg(elevation)),
       -SinDeg(elevation),
       MulF(CosDeg(azimuth), CosDeg(elevation)) >>

(***************************************************************************)
(* utils/math-utils.js and calculateLighting.  Positions, lengths and      *)
(* matrix entries are at scale 10^6: the squared distance of the light     *)
(* (up to 35^2) has to fit in 32 bits.  A mat4 is the sequence of its 16   *)
(* entries, entry out[i] of the code at index i + 1.  The rounding of a    *)
(* Float32Array entry (2^-24 relative) is below the scale's resolution.    *)
(***************************************************************************)
ONE6 == 1000000

\* a * b / 10^6 for a, b at scale 10^6, formed from 3-digit halves.
Mul6(a, b) ==
    LET aa == Abs(a)
        bb == Abs(b)
        ah == aa \div 1000
        al == aa % 1000
        bh == bb \div 1000
        bl == bb % 1000
        p  == ah * bh + ((ah * bl + al * bh) + ((al * bl) \div 1000) + 500) \div 1000
    IN  Sign(a) * Sign(b) * p

\* a / b at scale 10^6, b > 0.
Div6(a, b) ==
    Sign(a) * ((Abs(a) \div b) * ONE6 + LongDiv(Abs(a) % b, b, 6))

\* The element of a singleton: Only({e : x \in {d}}) is e with x the value
\* of d, which is then evaluated once however often e uses it.
Only(S) == CHOOSE x \in S : TRUE

\* The largest integer whose square does not exceed n, between lo and hi.
RECURSIVE SqrtSearch(_, _, _)
SqrtSearch(n, lo, hi) ==
    IF lo >= hi THEN lo
    ELSE LET mid == (lo + hi + 1) \div 2
         IN  IF mid * mid <= n THEN SqrtSearch(n, mid, hi)
             ELSE SqrtSearch(n, lo, mid - 1)

SqrtStep(a, r) == (r + Div6(a, r)) \div 2

\* Math.sqrt at scale 10^6: an integer root refined by Newton steps.
Sqrt6(a) ==
    IF a <= 0 THEN 0
    ELSE Only({ Only({ Only({ SqrtStep(n, r2) : r2 \in {SqrtStep(n, r1)} })
                       : r1 \in {SqrtStep(n, r0)} })
                : n \in {a}, r0 \in {1000 * SqrtSearch(a, 1, 46340)} })

Dot6(u, v) == Mul6(u[1], v[1]) + Mul6(u[2], v[2]) + Mul6(u[3], v[3])

Cross6(u, v) ==
    << Mul6(u[2], v[3]) - Mul6(u[3], v[2]),
       Mul6(u[3], v[1]) - Mul6(u[1], v[3]),
       Mul6(u[1], v[2]) - Mul6(u[2], v[1]) >>

Length6(u) == Sqrt6(Dot6(u, u))

\* Variant that takes the X axis for the right vector when up is parallel
\* to eye - center.
lookAtFallback(eye, center, up) ==
    LET Z(d, zlen) == << Div6(d[1], zlen), Div6(d[2], zlen), Div6(d[3], zlen) >>
        X(c, len) ==
            IF len # 0
            THEN << Div6(c[1], len), Div6(c[2], len), Div6(c[3], len) >>
            ELSE << ONE6, 0, 0 >>
        Out(x, y, z) ==
            << x[1], y[1], z[1], 0,
               x[2], y[2], z[2], 0,
               x[3], y[3], z[3], 0,
               -Dot6(x, eye), -Dot6(y, eye), -Dot6(z, eye), ONE6 >>
    IN  Only({ Only({ Only({ Only({ Only({ Out(x, Cross6(z, x), z)
                  : x \in {X(c, len)} })
                  : len \in {Length6(c)} })
                  : c \in {Cross6(up, z)} })
                  : z \in {Z(d, Length6(d))} })
                  : d \in {<< eye[1] - center[1], eye[2] - center[2],
                              eye[3] - center[3] >>} })

\* lookAt(out, eye, center, up)
lookAt(eye, center, up) ==
    LET \* zx, zy, zz from z0, z1, z2 (d) and their length
        Z(d, zlen) == << Div6(d[1], zlen), Div6(d[2], zlen), Div6(d[3], zlen) >>
        \* xx, xy, xz from x0, x1, x2 (c): zero when len is
        X(c, len) ==
            IF len # 0
            THEN << Div6(c[1], len), Div6(c[2], len), Div6(c[3], len) >>
            ELSE << 0, 0, 0 >>
        Out(x, y, z) ==
            << x[1], y[1], z[1], 0,
               x[2], y[2], z[2], 0,
               x[3], y[3], z[3], 0,
               -Dot6(x, eye), -Dot6(y, eye), -Dot6(z, eye), ONE6 >>
    IN  Only({ Only({ Only({ Only({ Only({ Out(x, Cross6(z, x), z)
                  : x \in {X(c, len)} })
                  : len \in {Length6(c)} })
                  : c \in {Cross6(up, z)} })
                  : z \in {Z(d, Length6(d))} })
                  : d \in {<< eye[1] - center[1], eye[2] - center[2],
                              eye[3] - center[3] >>} })

\* multiply(out, a, b): out = a x b, column-major.
multiply(a, b) ==
    Only({ [i \in 1..16 |->
               LET c == (i - 1) \div 4
                   r == (i - 1) % 4
               IN  Mul6(B[4 * c + 1], A[r + 1]) + Mul6(B[4 * c + 2], A[r + 5])
                     + Mul6(B[4 * c + 3], A[r + 9]) + Mul6(B[4 * c + 4], A[r + 13])]
           : A \in {a}, B \in {b} })

\* The four entries out[4c] .. out[4c + 3] multiply computes from b0 .. b3
\* (column c of b) and the locals a00 .. a33 (A).
ProductColumn(A, b0, b1, b2, b3) ==
    [r \in 1..4 |-> Mul6(b0, A[r]) + Mul6(b1, A[r + 4])
                      + Mul6(b2, A[r + 8]) + Mul6(b3, A[r + 12])]

StoreColumn(array, c, col) ==
    [i \in 1..16 |-> IF i \in (4 * c + 1)..(4 * c + 4) THEN col[i - 4 * c]
                      ELSE array[i]]

\* Variant that reads a[...] again for every column instead of the locals.
RECURSIVE MultiplyColumnsUncached(_, _, _, _, _)
MultiplyColumnsUncached(mem, out, a, b, c) ==
    IF c = 4 THEN mem
    ELSE MultiplyColumnsUncached(
             Only({ [m EXCEPT ![out] = StoreColumn(m[out], c,
                        ProductColumn(m[a], m[b][4 * c + 1], m[b][4 * c + 2],
                                      m[b][4 * c + 3], m[b][4 * c + 4]))]
                    : m \in {mem} }),
             out, a, b, c + 1)

multiplyIntoUncached(mem, out, a, b) ==
    MultiplyColumnsUncached(mem, out, a, b, 0)

\* The body of multiply after the locals a00 .. a33 were read, on the
\* arrays in memory `mem` (out, a and b name arrays, possibly the same
\* one): for each column c, b0 .. b3 are read from b as it is then, and
\* out[4c] .. out[4c + 3] are stored.
RECURSIVE MultiplyColumns(_, _, _, _, _)
MultiplyColumns(mem, out, A, b, c) ==
    IF c = 4 THEN mem
    ELSE MultiplyColumns(
             Only({ [m EXCEPT ![out] = StoreColumn(m[out], c,
                        ProductColumn(A, m[b][4 * c + 1], m[b][4 * c + 2],
                                      m[b][4 * c + 3], m[b][4 * c + 4]))]
                    : m \in {mem} }),
             out, A, b, c + 1)

\* multiply(out, a, b) on arrays in memory: the memory after the call.
multiplyInto(mem, out, a, b) == MultiplyColumns(mem, out, mem[a], b, 0)

\* createOrthographicMatrix(left, right, bottom, top, near, far)
createOrthographicMatrix(left, right, bottom, top, near, far) ==
    << Div6(2 * ONE6, right - left), 0, 0, 0,
       0, Div6(2 * ONE6, top - bottom), 0, 0,
       0, 0, -Div6(2 * ONE6, far - near), 0,
       -Div6(right + left, right - left),
       -Div6(top + bottom, top - bottom),
       -Div6(far + near, far - near),
       ONE6 >>

\* matrix * vec4(p, 1.0): the x, y, z of the product (w stays 1 for the
\* matrices built here, whose fourth row is 0 0 0 1).
TransformPosition(m, p) ==
    << Mul6(m[1], p[1]) + Mul6(m[5], p[2]) + Mul6(m[9], p[3]) + m[13],
       Mul6(m[2], p[1]) + Mul6(m[6], p[2]) + Mul6(m[10], p[3]) + m[14],
       Mul6(m[3], p[1]) + Mul6(m[7], p[2]) + Mul6(m[11], p[3]) + m[15] >>

\* v * num / den for a vector v at scale 10^8; with num / den a hundredth
\* of the factor the code multiplies by, the result is at scale 10^6.
ScaleTo6(v, num, den) ==
    << RDiv(v[1] * num, den), RDiv(v[2] * num, den), RDiv(v[3] * num, den) >>

\* sunPosition = [-x * 5, max(2, -y * 5 + 8), -z * 5]
SunPosition(lightDir) ==
    LET d == ScaleTo6(lightDir, 1, 20)
    IN  << -d[1], Max(2 * ONE6, -d[2] + 8 * ONE6), -d[3] >>

\* Variant without Math.abs and Math.max: the light follows the sun below
\* the ground.
LightPosUnclamped(lightDir) ==
    LET d == ScaleTo6(lightDir, 3, 10)
    IN  << -d[1], -d[2] + 5 * ONE6, -d[3] >>

\* lightPos = [-x * 30, max(5, |y| * 30 + 5), -z * 30]
LightPos(lightDir) ==
    LET d == ScaleTo6(lightDir, 3, 10)
    IN  << -d[1], Max(5 * ONE6, Abs(d[2]) + 5 * ONE6), -d[3] >>

\* Variant with the far plane at 8.5.
LightProjectionMatrixShortFar ==
    createOrthographicMatrix(-30 * ONE6, 30 * ONE6, -25 * ONE6, 25 * ONE6,
                             100000, 8500000)

\* createOrthographicMatrix(-30, 30, -25, 25, 0.1, 85)
LightProjectionMatrix ==
    createOrthographicMatrix(-30 * ONE6, 30 * ONE6, -25 * ONE6, 25 * ONE6,
                             100000, 85 * ONE6)

\* calculateLighting(values): what it returns beside lightDirection, with
\* its locals lightPos and lightViewMatrix =
\* lookAt(lightViewMatrix, lightPos, [0, 0, 0], [0, 1, 0]).
calculateLighting(lightDir) ==
    Only({ Only({ [sunPosition               |-> SunPosition(lightDir),
                   lightPos                  |-> lightPos,
                   lightViewMatrix           |-> lightViewMatrix,
                   lightViewProjectionMatrix |->
                       multiply(LightProjectionMatrix, lightViewMatrix)]
                  : lightViewMatrix \in
                        {lookAt(lightPos, << 0, 0, 0 >>, << 0, ONE6, 0 >>)} })
           : lightPos \in {LightPos(lightDir)} })

(***************************************************************************)
(* JavaScript values: a boolean option of the values object is carried as  *)
(* "true", "false" or "undefined" (the property is absent).                *)
(***************************************************************************)
JSOption == {"true", "false", "undefined"}

\* ToBoolean for these values: undefined is falsy.
Truthy(v) == v = "true"

\* A default parameter (enableShadows = true): the default is taken exactly
\* when the argument is undefined.
DefaultParam(v, default) == IF v = "undefined" THEN default ELSE v

(***************************************************************************)
(* State                                                                   *)
(***************************************************************************)
VARIABLES
    sunAngleSlider,         \* index.html #sunAngle, hundredths of a degree
    sunHeightSlider,        \* index.html #sunHeight, hundredths of a degree
    monthDaySlider,         \* index.html #monthDay
    autoRotateCheckbox,     \* index.html #autoRotate
    enableShadowsCheckbox,  \* index.html #enableShadows
    animationTime,          \* SundialApp.animationTime, in hundredths
    grassBlades,            \* SundialApp.buffers.grassBlades (the transforms)
    values,                 \* the values object of the current frame
    lightDirection,         \* lightData.lightDirection, scale 10^8
    timeDisplay,            \* #timeDisplay text
    shadowTime,             \* #shadowTime text (after the fixed prefix)
    glLog,                  \* the WebGL calls of the current frame, in order
    frameCount,             \* frames rendered so far
    shadowMapFrame,         \* frame that last wrote the shadow map, 0 = never
    fragment,               \* inputs of one fragment of the lighting pass
    shadowFactor,           \* the shadow factors computed for that fragment
    lightData,              \* what calculateLighting computed, scale 10^6
    gl_Position,            \* output of the shadow vertex shader per vertex
    gl,                     \* WebGL state that outlives a frame
    shadowProgram,          \* SundialApp.shadowProgram
    dayValue,               \* #dayValue text
    eot,                    \* equationOfTime(dayOfYear), minutes at scale 10^8
    pc,                     \* position inside the step-wise specifications
    canvas,                 \* the canvas element's width and height
    shadowTexture,          \* size of the texture initShadowMap allocated
    shadowViewport,         \* side of the viewport renderShadowPass sets
    arrays,                 \* the Float32Arrays a call of multiply works on
    called,                 \* that call's arguments as they were at the call
    dateCall,               \* a call of dayOfYearToDateString: its locals
    scheduled,              \* callbacks of render pending in requestAnimationFrame
    initialized,            \* renderer, uiControls and cameraControls are set
    cameraDistance,         \* CameraControls.cameraDistance, hundredths
    cameraAngleX,           \* CameraControls.cameraAngleX, tenths of a degree
    cameraAngleY,           \* CameraControls.cameraAngleY, tenths of a degree
    isDragging,             \* CameraControls.isDragging
    lastMouseX,             \* CameraControls.lastMouseX, pixels
    lastMouseY,             \* CameraControls.lastMouseY, pixels
    cameraEvents            \* mouse and wheel events handled so far

vars == << sunAngleSlider, sunHeightSlider, monthDaySlider, autoRotateCheckbox,
           enableShadowsCheckbox, animationTime, grassBlades,
           values, lightDirection, timeDisplay, shadowTime, glLog, frameCount,
           shadowMapFrame, fragment, shadowFactor, lightData, gl_Position, gl,
           shadowProgram, dayValue, eot, pc,
           canvas, shadowTexture, shadowViewport, arrays, called,
           dateCall, scheduled, initialized, cameraDistance, cameraAngleX,
           cameraAngleY, isDragging, lastMouseX, lastMouseY, cameraEvents >>

domVars == << sunAngleSlider, sunHeightSlider, monthDaySlider,
              autoRotateCheckbox, enableShadowsCheckbox >>

appVars == << animationTime, grassBlades >>

frameVars == << glLog, frameCount, shadowMapFrame >>

shadeVars == << fragment, shadowFactor >>

lightVars == << lightData, gl_Position >>

glVars == << gl, shadowProgram >>

calVars == << dayValue, eot >>

surfaceVars == << canvas, shadowTexture, shadowViewport >>

\* The state added for the canvas, the camera and the frame loop.
matrixVars == << arrays, called >>

cameraVars == << cameraDistance, cameraAngleX, cameraAngleY, isDragging,
                 lastMouseX, lastMouseY, cameraEvents >>

extVars == << surfaceVars, matrixVars, dateCall, cameraVars >>

loopVars == << scheduled, initialized >>

(***************************************************************************)
(* Grass blades: geometry/geometry.js, app/renderGrassBlades.js,           *)
(* app/renderForShadowMap.js.  Lengths are at scale 10^8.                  *)
(***************************************************************************)
\* createGrassBladeGeometry(4, height): the two base vertices (i = 0:
\* width 0.05, bend 0) and the tip (i = segments: width 0, bend 0.2).
BladeVertices(height) ==
    << << -5000000, 0, 0 >>, << 5000000, 0, 0 >>, << 20000000, height, 0 >> >>

\* scatterGrassField draws position, rotation, scale in [0.4, 0.8) and
\* height in [0.5, 1.5) at random: some of the blades it can produce.
BladeInputs ==
    { [position |-> << 0, 0, 0 >>, rotation |-> 0,
       scale |-> 40000000, height |-> 50000000],
      [position |-> << 300000000, 0, -200000000 >>, rotation |-> 9000,
       scale |-> 79000000, height |-> 140000000],
      [position |-> << -1100000000, 0, 1100000000 >>, rotation |-> 22500,
       scale |-> 60000000, height |-> 100000000] }

\* The column-major mat4 entries the blade loop assigns; every other entry
\* is the identity's.
IdentityMatrix ==
    [m0 |-> ONE8, m2 |-> 0, m5 |-> ONE8, m8 |-> 0, m10 |-> ONE8,
     m12 |-> 0, m13 |-> 0, m14 |-> 0]

\* Math.sin / Math.cos of an angle in radians at scale 10^8, 0 <= x8 <= 2 pi.
SinTurn(x8) == IF x8 <= PI8 THEN SinRad(x8) ELSE -SinRad(x8 - PI8)

CosTurn(x8) == IF x8 <= PI8 THEN CosRad(x8) ELSE -CosRad(x8 - PI8)

\* windTime = animationTime * 2.0 + (transform.windPhase || 0), radians:
\* scatterGrassField sets no windPhase.  The angle is taken modulo 2 pi:
\* windTime turns once in 314.1593 hundredths of animationTime.
WindTime(time) == ((time * 10000) % 3141593) * 200

\* windTime * 1.3 modulo 2 pi: one turn in 241.6610 hundredths.
WindTimeZ(time) == ((time * 10000) % 2416610) * 260

WindOffsetX(transform, time) ==
    MulF(MulF(SinTurn(WindTime(time)), 15000000), transform.height)

WindOffsetZ(transform, time) ==
    MulF(MulF(MulF(CosTurn(WindTimeZ(time)), 15000000),
              transform.height), 50000000)

\* The model matrix built for a blade, in both passes.
BladeModelMatrix(transform, time) ==
    [m0  |-> MulF(transform.scale, CosDeg(transform.rotation)),
     m2  |-> -MulF(transform.scale, SinDeg(transform.rotation)),
     m5  |-> transform.scale,
     m8  |-> MulF(transform.scale, SinDeg(transform.rotation)),
     m10 |-> MulF(transform.scale, CosDeg(transform.rotation)),
     m12 |-> transform.position[1] + WindOffsetX(transform, time),
     m13 |-> transform.position[2],
     m14 |-> transform.position[3] + WindOffsetZ(transform, time)]

\* model * vec4(a_position, 1.0)
TransformPoint(m, v) ==
    << MulF(m.m0, v[1]) + MulF(m.m8, v[3]) + m.m12,
       MulF(m.m5, v[2]) + m.m13,
       MulF(m.m2, v[1]) + MulF(m.m10, v[3]) + m.m14 >>

\* Main vertex shader: gl_Position = u_modelViewProjectionMatrix * a_position
\* with the mvp = projection * view * model passed by setUniforms, so the
\* vertex stands in the world at model * a_position.
MainVertexWorld(model, a_position) == TransformPoint(model, a_position)

\* Shadow vertex shader: gl_Position = u_lightViewProjectionMatrix *
\* a_position.  The program has no model uniform: the vertex stands in the
\* world at a_position.
ShadowVertexWorld(a_position) == a_position

(***************************************************************************)
(* The WebGL calls of a frame                                              *)
(***************************************************************************)
GLCall(call, arg) ==
    [call |-> call, arg |-> arg, mesh |-> "", index |-> 0,
     u_enableShadows |-> -1, placed |-> << >>, value |-> << >>]

\* gl.uniformMatrix4fv / gl.uniform3fv of `value` to the uniform `arg`, and
\* gl.viewport(x, y, width, height) with `value` the rectangle.
UniformCall(call, arg, value) == [GLCall(call, arg) EXCEPT !.value = value]

\* A call that throws: control leaves the frame for render's catch block.
ThrowCall(call) == GLCall("throw", call)

\* gl.drawElements under program `program`, with the value u_enableShadows
\* has at the call (-1: the program has no such uniform) and the world
\* placement of the vertices followed for the mesh.
DrawCall(program, mesh, index, switch, placed) ==
    [call |-> "drawElements", arg |-> program, mesh |-> mesh, index |-> index,
     u_enableShadows |-> switch, placed |-> placed, value |-> << >>]

\* Renderer.setUniforms(..., enableShadows = true, ...):
\* gl.uniform1f(enableShadowsLocation, enableShadows ? 1.0 : 0.0)
EnableShadowsUniform(enableShadows) ==
    IF Truthy(DefaultParam(enableShadows, "true")) THEN 1 ELSE 0

\* SundialApp.init: initShadowMap always returns its resources, which init
\* stores in shadowFramebuffer, shadowTexture and shadowProgram.
shadowFramebuffer == "framebuffer"

\* Renderer.drawShadowObject(vertexBuffer, indexBuffer, indexCount): further
\* arguments (isGrass, model) are not parameters and are dropped.
drawShadowObject(mesh, index, vertices) ==
    DrawCall("shadowProgram", mesh, index, -1,
             [i \in 1..Len(vertices) |-> ShadowVertexWorld(vertices[i])])

\* setUniforms(...) followed by Renderer.drawObject(...) under the main program.
drawObject(mesh, index, model, vertices, enableShadows) ==
    DrawCall("program", mesh, index, EnableShadowsUniform(enableShadows),
             [i \in 1..Len(vertices) |-> MainVertexWorld(model, vertices[i])])

\* The loop builds each blade's model matrix and passes it as a fifth
\* argument, which drawShadowObject does not take.
renderForShadowMap(time) ==
    << GLCall("useProgram", "shadowProgram") >> \o
    [i \in 1..Len(grassBlades) |->
        LET model == BladeModelMatrix(grassBlades[i], time)
        IN  drawShadowObject("grass", i, BladeVertices(grassBlades[i].height))]

DepthPassRuns(v) == ~(~Truthy(v.enableShadows) \/ shadowFramebuffer = "null")

\* Variant that clears the framebuffer after the casters were drawn.
ClearAfterCasters(casters) ==
    casters \o << GLCall("clear", "COLOR_BUFFER_BIT|DEPTH_BUFFER_BIT") >>

\* gl.clear(COLOR_BUFFER_BIT | DEPTH_BUFFER_BIT), then (after the program
\* and its matrix are set) the casters.
ClearThenCasters(casters) ==
    << GLCall("clear", "COLOR_BUFFER_BIT|DEPTH_BUFFER_BIT") >> \o casters

\* gl.useProgram(null) is allowed; gl.getUniformLocation(null, name) throws
\* a TypeError (its program parameter is not nullable), after the shadow
\* framebuffer was bound and cleared.  renderShadowPass has no try/finally.
renderShadowPass(v, lightViewProjectionMatrix, time) ==
    IF ~DepthPassRuns(v) THEN << >>
    ELSE << GLCall("bindFramebuffer", "shadowFramebuffer"),
            UniformCall("viewport", "shadowMap",
                        << 0, 0, shadowViewport, shadowViewport >>) >>
         \o (IF shadowProgram = "null"
             THEN << GLCall("clear", "COLOR_BUFFER_BIT|DEPTH_BUFFER_BIT"),
                     GLCall("useProgram", shadowProgram),
                     ThrowCall("getUniformLocation") >>
             ELSE ClearThenCasters(
                      << GLCall("useProgram", shadowProgram),
                         UniformCall("uniformMatrix4fv",
                                     "shadowProgram.u_lightViewProjectionMatrix",
                                     lightViewProjectionMatrix) >>
                      \o renderForShadowMap(time))
                  \o << GLCall("bindFramebuffer", "null"),
                        UniformCall("viewport", "canvas",
                                    << 0, 0, canvas.width, canvas.height >>) >>)

setLightingUniforms(sunPosition, lightViewProjectionMatrix, v) ==
    (IF Truthy(v.enableShadows) /\ shadowFramebuffer # "null"
     THEN << GLCall("activeTexture", "TEXTURE0"),
             GLCall("bindTexture", "shadowTexture"),
             GLCall("uniform1i", "program.u_shadowMap"),
             UniformCall("uniformMatrix4fv",
                         "program.u_lightViewProjectionMatrix",
                         lightViewProjectionMatrix) >>
     ELSE << >>)
    \o << UniformCall("uniform3fv", "program.u_lightPosition", sunPosition) >>

renderGrassBlades(v, time) ==
    [i \in 1..Len(grassBlades) |->
        drawObject("grass", i, BladeModelMatrix(grassBlades[i], time),
                   BladeVertices(grassBlades[i].height), v.enableShadows)]

\* calculateSundialHourAngles: one hour line per hour 6..18, each drawn as
\* a line and a marker after one setUniforms.
HourLineHours == << 6, 7, 8, 9, 10, 11, 12, 13, 14, 15, 16, 17, 18 >>

\* modelMatrix[13] = 0.01 lifts the hour lines off the ground.
renderHourLines(v) ==
    [k \in 1..(2 * Len(HourLineHours)) |->
        drawObject(IF k % 2 = 1 THEN "hourLine" ELSE "hourMarker",
                   HourLineHours[(k + 1) \div 2],
                   [IdentityMatrix EXCEPT !.m13 = 1000000], << >>,
                   v.enableShadows)]

\* calculateLighting: sunPosition = [-x * 5, max(2, -y * 5 + 8), -z * 5];
\* renderSun scales the sphere by 0.8 and moves it there.
SunModelMatrix(lightDir) ==
    [m0 |-> 80000000, m2 |-> 0, m5 |-> 80000000, m8 |-> 0, m10 |-> 80000000,
     m12 |-> -MulF(lightDir[1], 500000000),
     m13 |-> Max(200000000, -MulF(lightDir[2], 500000000) + 800000000),
     m14 |-> -MulF(lightDir[3], 500000000)]

\* The meshes other than the grass are drawn without following their
\* vertices (placed is empty).
renderMainScene(v, data, time) ==
    << GLCall("setupWebGLState", ""),
       GLCall("useProgram", "program"),
       GLCall("useProgram", "skyProgram"),
       DrawCall("skyProgram", "sky", 0, -1, << >>),
       GLCall("useProgram", "program") >>
    \o setLightingUniforms(data.sunPosition, data.lightViewProjectionMatrix, v)
    \o << drawObject("plane", 0, IdentityMatrix, << >>, v.enableShadows) >>
    \o renderGrassBlades(v, time)
    \o << drawObject("gnomon", 0, IdentityMatrix, << >>, v.enableShadows),
          drawObject("sun", 0,
                     SunModelMatrix(LightDirection(v.sunAngle, v.sunHeight)),
                     << >>, v.enableShadows) >>
    \o renderHourLines(v)
    \o << drawObject("cloud", 0, IdentityMatrix, << >>, "false") >>

(***************************************************************************)
(* The application as wired: controls/controls.js, index.html and the      *)
(* render loop of SundialApp.                                              *)
(***************************************************************************)
MaxFrames == 3

\* Positions the sliders are moved to (index.html: sunAngle 90..270,
\* sunHeight 5..85, monthDay 1..365, step 1).
SunAngleStops == {9000, 18000, 27000}

SunHeightStops == {500, 4500}

MonthDayStops == {65, 173}

\* A range input with step 1 keeps the nearest whole degree within
\* [min, max] of a value assigned to it.
SliderValue(deg) ==
    LET r == RDiv(deg, 100) * 100
    IN  IF r < 9000 THEN 9000 ELSE IF r > 27000 THEN 27000 ELSE r

\* UIControls.getValues(): the four properties it returns.  enableShadows
\* is not among them, so reading it from the result gives undefined.
getValues ==
    [sunAngle |-> sunAngleSlider, sunHeight |-> sunHeightSlider,
     dayOfYear |-> monthDaySlider, autoRotate |-> autoRotateCheckbox,
     enableShadows |-> "undefined"]

\* Variant without the remainder: the angle keeps growing.
AutoRotateAngleUnwrapped(time) == 9000 + time * 15

\* updateAutoRotate: sunAngle = 90 + ((animationTime * 15) % 180) after
\* animationTime += 0.01.
AutoRotateAngle(time) == 9000 + ((time * 15) % 18000)

InputSunAngle ==
    /\ \E a \in SunAngleStops : sunAngleSlider' = a
    /\ dayValue' = dayOfYearToDateString(monthDaySlider)
    /\ pc' = "idle"
    /\ UNCHANGED << extVars, loopVars >>
    /\ UNCHANGED << sunHeightSlider, monthDaySlider, autoRotateCheckbox,
                    enableShadowsCheckbox, appVars, values, lightDirection,
                    timeDisplay, shadowTime, frameVars, shadeVars,
                    lightVars, glVars, eot >>

InputSunHeight ==
    /\ \E h \in SunHeightStops : sunHeightSlider' = h
    /\ dayValue' = dayOfYearToDateString(monthDaySlider)
    /\ pc' = "idle"
    /\ UNCHANGED << extVars, loopVars >>
    /\ UNCHANGED << sunAngleSlider, monthDaySlider, autoRotateCheckbox,
                    enableShadowsCheckbox, appVars, values, lightDirection,
                    timeDisplay, shadowTime, frameVars, shadeVars,
                    lightVars, glVars, eot >>

InputMonthDay ==
    /\ \E d \in MonthDayStops : monthDaySlider' = d
    /\ dayValue' = dayOfYearToDateString(monthDaySlider')
    /\ pc' = "idle"
    /\ UNCHANGED << extVars, loopVars >>
    /\ UNCHANGED << sunAngleSlider, sunHeightSlider, autoRotateCheckbox,
                    enableShadowsCheckbox, appVars, values, lightDirection,
                    timeDisplay, shadowTime, frameVars, shadeVars,
                    lightVars, glVars, eot >>

ClickAutoRotate ==
    /\ autoRotateCheckbox' = ~autoRotateCheckbox
    /\ pc' = "idle"
    /\ UNCHANGED << extVars, loopVars >>
    /\ UNCHANGED << sunAngleSlider, sunHeightSlider, monthDaySlider,
                    enableShadowsCheckbox, appVars, values, lightDirection,
                    timeDisplay, shadowTime, frameVars, shadeVars,
                    lightVars, glVars, calVars >>

\* The checkbox has no listener and no reader: a click changes the DOM only.
ClickEnableShadows ==
    /\ enableShadowsCheckbox' = ~enableShadowsCheckbox
    /\ pc' = "idle"
    /\ UNCHANGED << extVars, loopVars >>
    /\ UNCHANGED << sunAngleSlider, sunHeightSlider, monthDaySlider,
                    autoRotateCheckbox, appVars, values, lightDirection,
                    timeDisplay, shadowTime, frameVars, shadeVars,
                    lightVars, glVars, calVars >>

\* An exception ends the frame: render's catch logs it, and the calls after
\* the throwing one are not made.
Thrown(log) == log # << >> /\ log[Len(log)].call = "throw"

\* The WebGL state a call leaves behind.
GLApply(g, c) ==
    CASE c.call = "bindFramebuffer" -> [g EXCEPT !.FRAMEBUFFER_BINDING = c.arg]
      [] c.call = "viewport" -> [g EXCEPT !.VIEWPORT = c.arg]
      [] c.call = "uniformMatrix4fv"
           /\ c.arg = "program.u_lightViewProjectionMatrix" ->
             [g EXCEPT !.program_u_lightViewProjectionMatrix = c.value]
      [] c.call = "uniformMatrix4fv"
           /\ c.arg = "shadowProgram.u_lightViewProjectionMatrix" ->
             [g EXCEPT !.shadowProgram_u_lightViewProjectionMatrix = c.value]
      [] OTHER -> g

RECURSIVE GLAfter(_, _)
GLAfter(g, log) ==
    IF log = << >> THEN g ELSE GLAfter(GLApply(g, Head(log)), Tail(log))

\* Variant with the closing requestAnimationFrame moved to the end of the
\* try block.
RafCallsInsideTry(path) ==
    (IF path = "uninitialized" THEN 1 ELSE 0)
      + (IF path = "completed" THEN 1 ELSE 0)

\* The calls of requestAnimationFrame(this.render) one invocation of render
\* makes: the one before `return` on the 'App not fully initialized' path,
\* and the one after the try/catch, reached on every path that did not
\* return (the catch block swallows what the frame threw).
RafCalls(path) ==
    (IF path = "uninitialized" THEN 1 ELSE 0)
      + (IF path # "uninitialized" THEN 1 ELSE 0)

\* One call of SundialApp.render with `got` the result of getValues().
Frame(got) ==
    \E time \in {IF got.autoRotate THEN animationTime + 1 ELSE animationTime} :
    \E v \in {IF got.autoRotate
              THEN [got EXCEPT !.sunAngle = AutoRotateAngle(time)]
              ELSE got} :
    \E ld \in {LightDirection(v.sunAngle, v.sunHeight)} :
    \E data \in {calculateLighting(ld)} :
    \E depth \in {renderShadowPass(v, data.lightViewProjectionMatrix, time)} :
    \E log \in {IF Thrown(depth) THEN depth
                ELSE depth \o renderMainScene(v, data, time)} :
        /\ scheduled > 0
        /\ initialized
        /\ frameCount < MaxFrames
        /\ animationTime' = time
        /\ sunAngleSlider' = IF got.autoRotate THEN SliderValue(v.sunAngle)
                             ELSE sunAngleSlider
        /\ values' = v
        /\ lightDirection' = ld
        /\ timeDisplay' = calculateTimeFromSun(v.sunAngle, v.sunHeight, v.dayOfYear)
        /\ shadowTime' = calculateShadowTime(ld, v.dayOfYear)
        /\ eot' = equationOfTime(v.dayOfYear)
        /\ dayValue' = IF got.autoRotate
                       THEN dayOfYearToDateString(monthDaySlider)
                       ELSE dayValue
        /\ lightData' = data
        /\ glLog' = log
        /\ gl' = GLAfter(gl, log)
        /\ frameCount' = frameCount + 1
        /\ shadowMapFrame' = IF DepthPassRuns(v) /\ ~Thrown(depth)
                             THEN frameCount + 1
                             ELSE shadowMapFrame
        /\ scheduled' = scheduled - 1
                           + RafCalls(IF Thrown(log) THEN "thrown" ELSE "completed")
        /\ pc' = "rendered"
        /\ UNCHANGED << extVars, initialized >>
        /\ UNCHANGED << sunHeightSlider, monthDaySlider, autoRotateCheckbox,
                        enableShadowsCheckbox, grassBlades, shadeVars,
                        gl_Position, shadowProgram >>

Render == Frame(getValues)

NoValues ==
    [sunAngle |-> 0, sunHeight |-> 0, dayOfYear |-> 0, autoRotate |-> FALSE,
     enableShadows |-> "undefined"]

NoFragment ==
    [x |-> 0, y |-> 0, z |-> 0, cosTheta |-> 0, near |-> 0, nearCount |-> 0,
     far |-> 0, u_enableShadows |-> 0]

NoShadowFactor == [sampleShadowMap |-> 0, calculateShadow |-> 0, calculateShadowPCF |-> 0]

ZeroMatrix == [i \in 1..16 |-> 0]

NoLightData ==
    [sunPosition |-> << 0, 0, 0 >>, lightPos |-> << 0, 0, 0 >>,
     lightViewMatrix |-> ZeroMatrix, lightViewProjectionMatrix |-> ZeroMatrix]

\* After init: initShadowMap rebinds the default framebuffer, setupCanvas
\* sets the viewport to the canvas, and a uniform never set is zero.
InitialGL ==
    [FRAMEBUFFER_BINDING |-> "null", VIEWPORT |-> "canvas",
     program_u_lightViewProjectionMatrix |-> ZeroMatrix,
     shadowProgram_u_lightViewProjectionMatrix |-> ZeroMatrix]

\* initShadowMap: const shadowMapSize = 2048, the side of the texture and
\* of the depth renderbuffer.
shadowMapSize == 2048

\* app/renderShadowPass.js declares renderShadowPass twice: the first
\* declaration sets gl.viewport(0, 0, 4096, 4096), the second
\* gl.viewport(0, 0, 2048, 2048).  Which one `import { renderShadowPass }`
\* binds is up to the loader.
ShadowViewports == {4096, 2048}

\* resizeCanvas in init: the canvas takes the window's inner size.
InitialWindow == [width |-> 1280, height |-> 720]

InitSurface ==
    /\ canvas = InitialWindow
    /\ shadowTexture = [width |-> shadowMapSize, height |-> shadowMapSize]
    /\ shadowViewport = 4096

NoCall == [out |-> "", a |-> ZeroMatrix, b |-> ZeroMatrix]

InitMatrix ==
    /\ arrays = [out |-> ZeroMatrix, a |-> ZeroMatrix, b |-> ZeroMatrix]
    /\ called = NoCall

\* The application's own state with nothing rendered, for the
\* specifications that apply one function to inputs of their own.
InitIdle ==
    /\ sunAngleSlider = 18000
    /\ sunHeightSlider = 4500
    /\ monthDaySlider = 173
    /\ autoRotateCheckbox = TRUE
    /\ enableShadowsCheckbox = TRUE
    /\ animationTime = 0
    /\ grassBlades = << >>
    /\ values = NoValues
    /\ lightDirection = << 0, 0, 0 >>
    /\ timeDisplay = ""
    /\ shadowTime = ""
    /\ glLog = << >>
    /\ frameCount = 0
    /\ shadowMapFrame = 0
    /\ fragment = NoFragment
    /\ shadowFactor = NoShadowFactor
    /\ lightData = NoLightData
    /\ gl_Position = << >>
    /\ gl = InitialGL
    /\ shadowProgram = "shadowProgram"
    /\ dayValue = dayOfYearToDateString(173)
    /\ eot = 0

NoDateCall == [day |-> 0, dayInMonth |-> 0, month |-> 0, returned |-> ""]

\* init ends with this.render(): one invocation of render is due, with
\* renderer, uiControls and cameraControls assigned before it.
InitLoop ==
    /\ scheduled = 1
    /\ initialized = TRUE

\* CameraControls constructor
InitCamera ==
    /\ cameraDistance = 3000
    /\ cameraAngleX = 450
    /\ cameraAngleY = 450
    /\ isDragging = FALSE
    /\ lastMouseX = 0
    /\ lastMouseY = 0
    /\ cameraEvents = 0

InitExt ==
    /\ InitSurface
    /\ InitMatrix
    /\ dateCall = NoDateCall
    /\ InitLoop
    /\ InitCamera

\* createProgram returns the linked program, or null when linking failed.
ShadowPrograms == {"shadowProgram", "null"}

\* After the constructor and init: the sliders and checkboxes as index.html
\* declares them, one scattered grass field, no frame rendered yet.
InitApp ==
    /\ sunAngleSlider = 18000
    /\ sunHeightSlider = 4500
    /\ monthDaySlider = 173
    /\ autoRotateCheckbox = TRUE
    /\ enableShadowsCheckbox = TRUE
    /\ animationTime = 0
    /\ grassBlades \in {<< b >> : b \in BladeInputs}
    /\ values = NoValues
    /\ lightDirection = << 0, 0, 0 >>
    /\ timeDisplay = ""
    /\ shadowTime = ""
    /\ glLog = << >>
    /\ frameCount = 0
    /\ shadowMapFrame = 0
    /\ fragment = NoFragment
    /\ shadowFactor = NoShadowFactor
    /\ lightData = NoLightData
    /\ gl_Position = << >>
    /\ gl = InitialGL
    /\ shadowProgram \in ShadowPrograms
    /\ dayValue = dayOfYearToDateString(173)
    /\ eot = 0
    /\ pc = "idle"

Init == InitApp /\ InitExt

Next ==
    \/ InputSunAngle
    \/ InputSunHeight
    \/ InputMonthDay
    \/ ClickAutoRotate
    \/ ClickEnableShadows
    \/ Render

Spec == Init /\ [][Next]_vars

(***************************************************************************)
(* The render passes called with any values object: enableShadows may be   *)
(* true, false or absent.                                                  *)
(***************************************************************************)
RenderWith ==
    \E enableShadows \in JSOption :
        Frame([getValues EXCEPT !.enableShadows = enableShadows])

NextPass ==
    \/ ClickAutoRotate
    \/ RenderWith

SpecPass == Init /\ [][NextPass]_vars

(***************************************************************************)
(* The time functions on their own: updateTimeDisplays applied to any      *)
(* azimuth, elevation and day.                                             *)
(***************************************************************************)
AzimuthSteps == 180

DaySteps == 12

\* Every whole degree from 90 degrees on (the slider's positions), and
\* azimuths outside the dial.
AzimuthInputs ==
    {9000 + 100 * k : k \in 0..AzimuthSteps}
        \cup {0, 8000, 8900, 27100, 28000, 36000}

ElevationInputs == {-9000, -500, 0, 50, 60, 500, 600, 4500, 8400, 8500, 9000}

DayInputs ==
    {d \in {1 + 30 * k : k \in 0..DaySteps} : d <= 365} \cup {65, 173, 365}

InitTime ==
    /\ sunAngleSlider = 18000
    /\ sunHeightSlider = 4500
    /\ monthDaySlider = 173
    /\ autoRotateCheckbox = TRUE
    /\ enableShadowsCheckbox = TRUE
    /\ animationTime = 0
    /\ grassBlades = << >>
    /\ values \in [sunAngle : AzimuthInputs, sunHeight : ElevationInputs,
                   dayOfYear : DayInputs, autoRotate : {FALSE},
                   enableShadows : {"undefined"}]
    /\ lightDirection = << 0, 0, 0 >>
    /\ timeDisplay = ""
    /\ shadowTime = ""
    /\ glLog = << >>
    /\ frameCount = 0
    /\ shadowMapFrame = 0
    /\ fragment = NoFragment
    /\ shadowFactor = NoShadowFactor
    /\ lightData = NoLightData
    /\ gl_Position = << >>
    /\ gl = InitialGL
    /\ shadowProgram = "shadowProgram"
    /\ dayValue = dayOfYearToDateString(173)
    /\ eot = 0
    /\ pc = "values"
    /\ InitExt

\* calculateLighting(values)
CalculateLighting ==
    /\ pc = "values"
    /\ \E ld \in {LightDirection(values.sunAngle, values.sunHeight)} :
           /\ lightDirection' = ld
           /\ lightData' = calculateLighting(ld)
    /\ pc' = "lit"
    /\ UNCHANGED << extVars, loopVars >>
    /\ UNCHANGED << domVars, appVars, values, timeDisplay, shadowTime,
                    frameVars, shadeVars, gl_Position, glVars,
                    calVars >>

\* updateTimeDisplays(values, lightDirection)
UpdateTimeDisplays ==
    /\ pc = "lit"
    /\ timeDisplay' = calculateTimeFromSun(values.sunAngle, values.sunHeight,
                                           values.dayOfYear)
    /\ shadowTime' = calculateShadowTime(lightDirection, values.dayOfYear)
    /\ eot' = equationOfTime(values.dayOfYear)
    /\ pc' = "shown"
    /\ UNCHANGED << extVars, loopVars >>
    /\ UNCHANGED << domVars, appVars, values, lightDirection, frameVars,
                    shadeVars, lightVars, glVars, dayValue >>

NextTime ==
    \/ CalculateLighting
    \/ UpdateTimeDisplays

SpecTime == InitTime /\ [][NextTime]_vars

(***************************************************************************)
(* Properties of the time functions (checked under SpecTime)               *)
(***************************************************************************)
Shown == pc = "shown"

Sentinels == {"Notte", "Sole non visibile", "Fuori orario"}

TwoDigits(n) == DigitChar(n \div 10) \o DigitChar(n % 10)

\* The text HH:MM of minute t of the day.
ClockText(t) == TwoDigits(t \div 60) \o ":" \o TwoDigits(t % 60)

ClockTable == [t \in 0..1439 |-> ClockText(t)]

\* The minute of the day a text HH:MM stands for, -1 for any other text.
ClockMinute(text) ==
    IF \E t \in 0..1439 : ClockTable[t] = text
    THEN CHOOSE t \in 0..1439 : ClockTable[t] = text
    ELSE -1

\* civilTime = (azimuth - 90) / 15 + 6 - equationOfTime(dayOfYear) / 60,
\* in minutes at scale 10^6.
CivilTimeOfSun(v) ==
    (v.sunAngle - 9000) * 40000 + 360000000 - RDiv(equationOfTime(v.dayOfYear), 100)

\* C4: for elevation > 0 and an azimuth on the dial, calculateTimeFromSun
\* returns "Fuori orario" exactly when floor(civilTime) < 6 or > 17, and
\* otherwise HH:MM with HH = floor(civilTime) in 6..17 and MM =
\* floor((civilTime - HH) * 60) in 0..59, both of two digits; azimuth 180,
\* elevation 45, day 173 gives a time within 5 minutes of 12:00.
C4_TimeFromSun ==
    (Shown /\ values.sunHeight > 0
           /\ values.sunAngle >= 9000 /\ values.sunAngle <= 27000) =>
        LET civil == CivilTimeOfSun(values)
            HH    == civil \div 60000000
            MM    == (civil % 60000000) \div 1000000
        IN  /\ (timeDisplay = "Fuori orario") <=> (HH < 6 \/ HH > 17)
            /\ timeDisplay # "Fuori orario" =>
                  /\ HH \in 6..17
                  /\ MM \in 0..59
                  /\ timeDisplay = ClockText(60 * HH + MM)
            /\ (values.sunAngle = 18000 /\ values.sunHeight = 4500
                    /\ values.dayOfYear = 173) =>
                  timeDisplay \in {ClockText(720 + d) : d \in -5..5}

\* C4 witness: the noon example (azimuth 180, elevation 45, day 173) gives
\* the time 12:01.
C4_Witness ==
    /\ Shown
    /\ values.sunAngle = 18000 /\ values.sunHeight = 4500
    /\ values.dayOfYear = 173
    /\ timeDisplay = "12:01"

\* C5 as stated: for elevation > 0, "Sole non visibile" exactly for the
\* azimuths outside the open interval (90, 270) degrees.
C5_OpenInterval ==
    (Shown /\ values.sunHeight > 0) =>
        ((timeDisplay = "Sole non visibile")
            <=> ~(values.sunAngle > 9000 /\ values.sunAngle < 27000))

\* C5 amended: for elevation > 0, "Sole non visibile" exactly for the
\* azimuths below 90 or above 270 degrees; 90 and 270 themselves are on
\* the dial.
C5_ClosedInterval ==
    (Shown /\ values.sunHeight > 0) =>
        ((timeDisplay = "Sole non visibile")
            <=> (values.sunAngle < 9000 \/ values.sunAngle > 27000))

\* C5 witness: azimuth exactly 90 degrees with the sun up gives a time.
C5_Witness ==
    /\ Shown
    /\ values.sunHeight > 0
    /\ values.sunAngle = 9000
    /\ timeDisplay \notin Sentinels

\* C6: elevation <= 0 gives "Notte" for every azimuth and day, also for an
\* azimuth off the dial.
C6_NightFirst ==
    (Shown /\ values.sunHeight <= 0) => timeDisplay = "Notte"

\* C6 witness: elevation exactly 0 with an azimuth off the dial.
C6_Witness ==
    /\ Shown
    /\ values.sunHeight = 0
    /\ values.sunAngle = 28000
    /\ timeDisplay = "Notte"

C8_NightAtHorizon ==
    Shown =>
        /\ (shadowTime = "Notte") <=> (values.sunHeight <= 0)
        /\ (shadowTime = "Notte") <=> (timeDisplay = "Notte")

\* C8 amended: calculateShadowTime returns "Notte" exactly when the Y
\* component of the direction is >= -0.01, that is sin(elevation) <= 0.01:
\* for every elevation up to 0.5 degrees and for none from 0.6 degrees on.
\* Whenever calculateTimeFromSun returns "Notte", so does it.
C8_NightThreshold ==
    Shown =>
        /\ (shadowTime = "Notte") <=> (SinDeg(values.sunHeight) <= 1000000)
        /\ values.sunHeight <= 50 => shadowTime = "Notte"
        /\ values.sunHeight >= 60 => shadowTime # "Notte"
        /\ timeDisplay = "Notte" => shadowTime = "Notte"

\* C8 witness: the sun half a degree above the horizon, where the shadow
\* time is "Notte" and the sun time is not.
C8_Witness ==
    /\ Shown
    /\ values.sunHeight = 50
    /\ shadowTime = "Notte"
    /\ timeDisplay # "Notte"

(***************************************************************************)
(* Shadow sampling in the fragment shaders: webgl/shaders.js               *)
(* sampleShadowMap and the calculateShadow / calculateShadowPCF variants.  *)
(* Coordinates and depths are at scale 10^4, shadow factors at scale       *)
(* 36000 (so that 0.3 + 0.7 k / 9 and 0.25 + 0.75 s / 9 are integers).     *)
(***************************************************************************)
FACTOR_ONE == 36000

DepthLevels == 2

\* Normalised device coordinates (shadowCoord.xyz / shadowCoord.w) of the
\* fragment in thousandths: inside the light frustum, on its faces, just
\* inside them and outside.
NdcInputs == {-1200, -1002, -1000, -990, 0, 990, 1000, 1002, 1200}

\* dot(normal, lightDir)
CosThetaInputs == {-10000, 0, 5000, 10000}

\* The red channel of the shadow map: a depth in [0, 1].
DepthInputs == {(10000 * k) \div DepthLevels : k \in 0..DepthLevels}

NearCountInputs == {0, 1, 4, 8, 9}

\* projCoords = projCoords * 0.5 + 0.5
Norm(ndc) == ndc * 5 + 5000

\* texture2D(u_shadowMap, ...).r for the i-th of the 3 x 3 taps: the first
\* nearCount taps fall on the nearer occluder.  Tap 5 is the centre.
TextureDepth(frag, i) == IF i <= frag.nearCount THEN frag.near ELSE frag.far

\* smoothstep(-0.0005, 0.0005, x) in thousandths, x at scale 10^4.
Smoothstep(x) ==
    LET n == Max(0, Min(10, x + 5))
    IN  n * n * (30 - 2 * n)

\* Variant returning mix(0.0, 1.0, shadow): full black in shadow.
sampleShadowMapBlack(frag) ==
    LET x == Norm(frag.x)
        y == Norm(frag.y)
        z == Norm(frag.z)
        bias == Max((10000 - frag.cosTheta) \div 200, 10)
        lit  == {i \in 1..9 : ~(z - bias > TextureDepth(frag, i))}
    IN  IF x < 0 \/ x > 10000 \/ y < 0 \/ y > 10000 \/ z < 0 \/ z > 10000
        THEN FACTOR_ONE
        ELSE 4000 * Cardinality(lit)

\* mix(0.3, 1.0, shadow) with shadow = (lit taps) / 9.
sampleShadowMap(frag) ==
    LET x == Norm(frag.x)
        y == Norm(frag.y)
        z == Norm(frag.z)
        bias == Max((10000 - frag.cosTheta) \div 200, 10)
        lit  == {i \in 1..9 : ~(z - bias > TextureDepth(frag, i))}
    IN  IF x < 0 \/ x > 10000 \/ y < 0 \/ y > 10000 \/ z < 0 \/ z > 10000
        THEN FACTOR_ONE
        ELSE 10800 + 2800 * Cardinality(lit)

\* main(): shadow = 1.0; if (u_enableShadows > 0.5) shadow = sampleShadowMap(...)
MainShadow(frag) ==
    IF frag.u_enableShadows = 1 THEN sampleShadowMap(frag) ELSE FACTOR_ONE

\* Variant without the test of the depth against 1.
calculateShadowNoFarTest(frag) ==
    LET x == Norm(frag.x)
        y == Norm(frag.y)
        z == Norm(frag.z)
    IN  IF frag.u_enableShadows = 0 THEN FACTOR_ONE
        ELSE IF x < 0 \/ x > 10000 \/ y < 0 \/ y > 10000
        THEN FACTOR_ONE
        ELSE IF z - 50 > TextureDepth(frag, 5) THEN 10800 ELSE FACTOR_ONE

calculateShadow(frag) ==
    LET x == Norm(frag.x)
        y == Norm(frag.y)
        z == Norm(frag.z)
    IN  IF frag.u_enableShadows = 0 THEN FACTOR_ONE
        ELSE IF z > 10000 \/ x < 0 \/ x > 10000 \/ y < 0 \/ y > 10000
        THEN FACTOR_ONE
        ELSE IF z - 50 > TextureDepth(frag, 5) THEN 10800 ELSE FACTOR_ONE

RECURSIVE SumTaps(_, _, _, _)
SumTaps(frag, z, bias, i) ==
    IF i = 0 THEN 0
    ELSE (1000 - Smoothstep(z - TextureDepth(frag, i) - bias))
            + SumTaps(frag, z, bias, i - 1)

calculateShadowPCF(frag) ==
    LET x == Norm(frag.x)
        y == Norm(frag.y)
        z == Norm(frag.z)
        bias == RDiv(100000, Max(frag.cosTheta, 1000))
    IN  IF frag.u_enableShadows = 0 THEN FACTOR_ONE
        ELSE IF z > 10000 \/ x < 100 \/ x > 9900 \/ y < 100 \/ y > 9900
        THEN FACTOR_ONE
        ELSE 9000 + 3 * SumTaps(frag, z, bias, 9)

InitShade ==
    /\ sunAngleSlider = 18000
    /\ sunHeightSlider = 4500
    /\ monthDaySlider = 173
    /\ autoRotateCheckbox = TRUE
    /\ enableShadowsCheckbox = TRUE
    /\ animationTime = 0
    /\ grassBlades = << >>
    /\ values = NoValues
    /\ lightDirection = << 0, 0, 0 >>
    /\ timeDisplay = ""
    /\ shadowTime = ""
    /\ glLog = << >>
    /\ frameCount = 0
    /\ shadowMapFrame = 0
    /\ fragment \in [x : NdcInputs, y : NdcInputs, z : NdcInputs,
                     cosTheta : CosThetaInputs, near : DepthInputs,
                     nearCount : NearCountInputs, far : DepthInputs,
                     u_enableShadows : {0, 1}]
    /\ shadowFactor = NoShadowFactor
    /\ lightData = NoLightData
    /\ gl_Position = << >>
    /\ gl = InitialGL
    /\ shadowProgram = "shadowProgram"
    /\ dayValue = dayOfYearToDateString(173)
    /\ eot = 0
    /\ pc = "fragment"
    /\ InitExt

\* The fragment shader runs for the fragment, in each of its versions.
Shade ==
    /\ pc = "fragment"
    /\ shadowFactor' = [sampleShadowMap    |-> MainShadow(fragment),
                        calculateShadow    |-> calculateShadow(fragment),
                        calculateShadowPCF |-> calculateShadowPCF(fragment)]
    /\ pc' = "shaded"
    /\ UNCHANGED << extVars, loopVars >>
    /\ UNCHANGED << domVars, appVars, values, lightDirection, timeDisplay,
                    shadowTime, frameVars, fragment, lightVars, glVars,
                    calVars >>

NextShade == Shade

SpecShade == InitShade /\ [][NextShade]_vars

OutsideFrustum(frag) ==
    \E c \in {Norm(frag.x), Norm(frag.y), Norm(frag.z)} : c < 0 \/ c > 10000

\* C9: a fragment whose shadow-map coordinate is outside the light frustum
\* (u, v or depth outside [0, 1], depth below 0 included) gets the shadow
\* factor 1 from every version of the shader, whatever the map holds.
C9_OutsideFrustumLit ==
    (pc = "shaded" /\ OutsideFrustum(fragment)) =>
        /\ shadowFactor.sampleShadowMap = FACTOR_ONE
        /\ shadowFactor.calculateShadow = FACTOR_ONE
        /\ shadowFactor.calculateShadowPCF = FACTOR_ONE

\* C9 witness: shadows on, u and v inside, the depth beyond the far plane
\* and the map holding a nearer occluder on every tap.
C9_Witness ==
    /\ pc = "shaded"
    /\ fragment.u_enableShadows = 1
    /\ fragment.x = 0 /\ fragment.y = 0 /\ fragment.z = 1200
    /\ fragment.near = 0 /\ fragment.nearCount = 9
    /\ shadowFactor.calculateShadow = FACTOR_ONE
    /\ shadowFactor.calculateShadowPCF = FACTOR_ONE
    /\ shadowFactor.sampleShadowMap = FACTOR_ONE

\* The number of the nine taps whose stored depth the biased fragment depth
\* does not exceed, counted from the map's content: nearCount taps hold the
\* nearer depth and the others the farther one.
UnoccludedTaps(frag) ==
    LET biased == Norm(frag.z) - Max(50 - frag.cosTheta \div 200, 10)
    IN  (IF biased <= frag.near THEN frag.nearCount ELSE 0)
          + (IF biased <= frag.far THEN 9 - frag.nearCount ELSE 0)

\* C22: the factor of the sampling function is in [0.3, 1] and never 0, and
\* for a fragment inside the light frustum it is 0.3 + 0.7 k / 9 with k the
\* number of unoccluded taps of the 3 x 3 kernel.
C22_ShadowFactorRange ==
    pc = "shaded" =>
        /\ shadowFactor.sampleShadowMap # 0
        /\ 10 * shadowFactor.sampleShadowMap >= 3 * FACTOR_ONE
        /\ shadowFactor.sampleShadowMap <= FACTOR_ONE
        /\ (fragment.u_enableShadows = 1 /\ ~OutsideFrustum(fragment)) =>
              90 * shadowFactor.sampleShadowMap =
                  (27 + 7 * UnoccludedTaps(fragment)) * FACTOR_ONE

\* C22 witness: four taps fall on an occluder nearer than the fragment and
\* five do not: the factor is 0.3 + 0.7 * 5 / 9.
C22_Witness ==
    /\ pc = "shaded"
    /\ fragment.u_enableShadows = 1
    /\ ~OutsideFrustum(fragment)
    /\ fragment.nearCount = 4
    /\ UnoccludedTaps(fragment) = 5
    /\ 90 * shadowFactor.sampleShadowMap = 62 * FACTOR_ONE

(***************************************************************************)
(* Properties of a frame (checked under Spec and SpecPass)                 *)
(***************************************************************************)
Rendered == pc = "rendered"

\* Positions in the log of the draw calls under a program.
DrawsUnder(log, program) ==
    {i \in 1..Len(log) : log[i].call = "drawElements" /\ log[i].arg = program}

DepthDraws(log) == DrawsUnder(log, "shadowProgram")

MainDraws(log) == DrawsUnder(log, "program")

\* The draw calls of the main scene, the sky included.
SceneDraws(log) == MainDraws(log) \cup DrawsUnder(log, "skyProgram")

\* The main draw calls whose fragments call sampleShadowMap
\* (u_enableShadows > 0.5).
SamplingDraws(log) == {i \in MainDraws(log) : log[i].u_enableShadows = 1}

\* Positions at which the depth pass is entered / left.
DepthPassEntries(log) ==
    {i \in 1..Len(log) : log[i] = GLCall("bindFramebuffer", "shadowFramebuffer")}

DepthPassExits(log) ==
    {i \in 1..Len(log) : log[i] = GLCall("bindFramebuffer", "null")}

\* C1 as stated: in a frame with shadows disabled (the depth pass does not
\* run) every object of the lighting pass is drawn with u_enableShadows = 0.
C1_SwitchOffWhenDisabled ==
    (Rendered /\ ~Truthy(values.enableShadows)) =>
        /\ DepthPassEntries(glLog) = {}
        /\ \A i \in MainDraws(glLog) : glLog[i].u_enableShadows = 0

\* C1 failing state: the 'Activate Shadows' box is unticked, no depth pass
\* ran and no shadow map was ever written, and the ground plane is drawn
\* with u_enableShadows = 1.
C1_Witness ==
    /\ Rendered
    /\ ~enableShadowsCheckbox
    /\ DepthPassEntries(glLog) = {}
    /\ shadowMapFrame = 0
    /\ \E i \in SamplingDraws(glLog) : glLog[i].mesh = "plane"

\* C2 as stated: a frame enters the depth pass exactly once when the
\* 'Activate Shadows' input is on and not at all when it is off.
C2_DepthPassIffInput ==
    Rendered =>
        Cardinality(DepthPassEntries(glLog))
            = (IF enableShadowsCheckbox THEN 1 ELSE 0)

\* C2 failing state: a frame rendered with the input on and no depth pass.
C2_Witness ==
    /\ Rendered
    /\ enableShadowsCheckbox
    /\ DepthPassEntries(glLog) = {}

\* C3 as stated: when the lighting pass of a frame samples the shadow map,
\* the depth pass of that frame was entered, issued all its draw calls and
\* unbound the shadow framebuffer before; and no depth-pass draw call comes
\* after the first draw call of the main scene.
C3_ProducedBeforeConsumed ==
    Rendered =>
        /\ SamplingDraws(glLog) # {} =>
              \E k \in DepthPassEntries(glLog), j \in DepthPassExits(glLog) :
                  /\ k < j
                  /\ \A d \in DepthDraws(glLog) : k < d /\ d < j
                  /\ \A m \in SamplingDraws(glLog) : j < m
        /\ \A d \in DepthDraws(glLog), m \in SceneDraws(glLog) : d < m

\* C3 failing state: the lighting pass samples in a frame without a depth
\* pass.
C3_Witness ==
    /\ Rendered
    /\ SamplingDraws(glLog) # {}
    /\ DepthPassEntries(glLog) = {}
    /\ DepthDraws(glLog) = {}

\* C10 as stated: every mesh drawn in the depth pass is placed as the same
\* mesh is in the main pass of that frame.
C10_SamePlacement ==
    Rendered =>
        \A d \in DepthDraws(glLog) :
            \E m \in MainDraws(glLog) :
                /\ glLog[m].mesh = glLog[d].mesh
                /\ glLog[m].index = glLog[d].index
                /\ glLog[m].placed = glLog[d].placed

\* C10 failing state: a blade away from the origin is drawn in the depth
\* pass with its tip at the untransformed position, and in the main pass
\* elsewhere.
C10_Witness ==
    /\ Rendered
    /\ grassBlades[1].position = << 300000000, 0, -200000000 >>
    /\ \E d \in DepthDraws(glLog), m \in MainDraws(glLog) :
          /\ glLog[d].mesh = "grass" /\ glLog[m].mesh = "grass"
          /\ glLog[d].index = glLog[m].index
          /\ glLog[d].placed[3] = << 20000000, grassBlades[1].height, 0 >>
          /\ glLog[m].placed[3] # glLog[d].placed[3]

(***************************************************************************)
(* calculateLighting and the shadow vertex shader on their own: the light  *)
(* data of any azimuth and elevation, and the clip-space position of the   *)
(* vertices the depth pass is given.                                       *)
(***************************************************************************)
LightAzimuthSteps == 24

LightElevationSteps == 16

\* Azimuths every 15 degrees of the full turn, 0 and 360 included.
LightAzimuthInputs == {1500 * k : k \in 0..LightAzimuthSteps}

\* The slider's range, 5 to 85 degrees, every 5 degrees, and elevations
\* outside it: below the horizon, on it, near it and near the zenith.
LightElevationInputs ==
    {e \in {500 + 500 * k : k \in 0..LightElevationSteps} : e <= 9000}
        \cup {-9000, -4500, -100, 0, 100, 8900, 9000}

InUIRange(v) == v.sunHeight >= 500 /\ v.sunHeight <= 8500

\* createGnomon: the a_position of its 8 vertices (width 0.05, height 2).
GnomonVertices ==
    << << -50000, 0, -50000 >>, << 50000, 0, -50000 >>,
       << 50000, 0, 50000 >>, << -50000, 0, 50000 >>,
       << -50000, 2 * ONE6, -50000 >>, << 50000, 2 * ONE6, -50000 >>,
       << 50000, 2 * ONE6, 50000 >>, << -50000, 2 * ONE6, 50000 >> >>

\* The a_position of the blades' vertices, at scale 10^6.
GrassVertices(blades) ==
    [i \in 1..Len(blades) |->
        LET vs == BladeVertices(blades[i].height)
        IN  [k \in 1..Len(vs) |->
                << RDiv(vs[k][1], 100), RDiv(vs[k][2], 100), RDiv(vs[k][3], 100) >>]]

\* Shadow vertex shader: gl_Position = u_lightViewProjectionMatrix *
\* vec4(a_position, 1.0).
ShadowVertexPosition(u_lightViewProjectionMatrix, a_position) ==
    TransformPosition(u_lightViewProjectionMatrix, a_position)

InitLight ==
    /\ sunAngleSlider = 18000
    /\ sunHeightSlider = 4500
    /\ monthDaySlider = 173
    /\ autoRotateCheckbox = TRUE
    /\ enableShadowsCheckbox = TRUE
    /\ animationTime = 0
    /\ grassBlades \in {<< b >> : b \in BladeInputs}
    /\ values \in [sunAngle : LightAzimuthInputs, sunHeight : LightElevationInputs,
                   dayOfYear : {173}, autoRotate : {FALSE},
                   enableShadows : {"true"}]
    /\ lightDirection = << 0, 0, 0 >>
    /\ timeDisplay = ""
    /\ shadowTime = ""
    /\ glLog = << >>
    /\ frameCount = 0
    /\ shadowMapFrame = 0
    /\ fragment = NoFragment
    /\ shadowFactor = NoShadowFactor
    /\ lightData = NoLightData
    /\ gl_Position = << >>
    /\ gl = InitialGL
    /\ shadowProgram = "shadowProgram"
    /\ dayValue = dayOfYearToDateString(173)
    /\ eot = 0
    /\ pc = "values"
    /\ InitExt

\* The shadow program runs on the vertices of the gnomon and of the grass
\* with the matrix renderShadowPass gave it.
ShadowVertexShader ==
    /\ pc = "lit"
    /\ gl_Position' =
          [gnomon |-> [k \in 1..Len(GnomonVertices) |->
                          ShadowVertexPosition(lightData.lightViewProjectionMatrix,
                                               GnomonVertices[k])],
           grass  |-> [i \in 1..Len(grassBlades) |->
                          [k \in 1..Len(GrassVertices(grassBlades)[i]) |->
                              ShadowVertexPosition(
                                  lightData.lightViewProjectionMatrix,
                                  GrassVertices(grassBlades)[i][k])]]]
    /\ pc' = "projected"
    /\ UNCHANGED << extVars, loopVars >>
    /\ UNCHANGED << domVars, appVars, values, lightDirection, timeDisplay,
                    shadowTime, frameVars, shadeVars, lightData, glVars,
                    calVars >>

NextLight ==
    \/ CalculateLighting
    \/ ShadowVertexShader

SpecLight == InitLight /\ [][NextLight]_vars

Lit == pc \in {"lit", "projected"}

\* The direction the light's camera looks in: minus the z axis of the view
\* matrix, which lookAt stores in out[2], out[6], out[10].
LookDirection(lightViewMatrix) ==
    << -lightViewMatrix[3], -lightViewMatrix[7], -lightViewMatrix[11] >>

LightDirection6 ==
    << RDiv(lightDirection[1], 100), RDiv(lightDirection[2], 100),
       RDiv(lightDirection[3], 100) >>

\* Two vectors at scale 10^6 no further apart than a thousandth on any axis.
Near6(u, v) == \A i \in 1..3 : Abs(u[i] - v[i]) <= 1000

\* C11 as stated: for every azimuth and every elevation of the slider's
\* range, the direction the depth pass looks in (from the light position to
\* the origin) is parallel to the light direction and of the same sense.
C11_LookAlongLightDirection ==
    (Lit /\ InUIRange(values)) =>
        /\ Near6(Cross6(LookDirection(lightData.lightViewMatrix), LightDirection6),
                 << 0, 0, 0 >>)
        /\ Dot6(LookDirection(lightData.lightViewMatrix), LightDirection6) > 0

\* C11 failing state: at azimuth 180 and elevation 5 the light direction
\* descends by 0.087 per unit and the depth pass looks down by more than 0.2.
C11_Witness ==
    /\ Lit
    /\ values.sunAngle = 18000 /\ values.sunHeight = 500
    /\ LightDirection6[2] > -90000
    /\ LookDirection(lightData.lightViewMatrix)[2] < -200000
    /\ lightData.lightPos[2] > 7 * ONE6

C13_SunOppositeLight ==
    Lit =>
        /\ Near6(lightData.sunPosition,
                 << -5 * LightDirection6[1], -5 * LightDirection6[2],
                    -5 * LightDirection6[3] >>)
        /\ Abs(Length6(lightData.sunPosition) - 5 * ONE6) <= 1000

\* C13 failing state: at elevation 45 the point of the ray is 3.54 high and
\* the sun position is 8 higher, more than 12 from the origin.
C13_Witness ==
    /\ Lit
    /\ values.sunAngle = 18000 /\ values.sunHeight = 4500
    /\ -5 * LightDirection6[2] < 4 * ONE6
    /\ lightData.sunPosition[2] > 11 * ONE6
    /\ Length6(lightData.sunPosition) > 12 * ONE6

\* C15: for every azimuth and every elevation in [-90, 90] degrees the
\* light direction is a unit vector (to within 10^-6) whose Y component is
\* strictly negative exactly when the elevation is in (0, 90] degrees, and
\* azimuths 0 and 360 give the same vector (to within 10^-8).
C15_UnitLightDirection ==
    Lit =>
        /\ Abs(MulF(lightDirection[1], lightDirection[1])
                 + MulF(lightDirection[2], lightDirection[2])
                 + MulF(lightDirection[3], lightDirection[3]) - ONE8) <= 100
        /\ (lightDirection[2] < 0) <=>
               (values.sunHeight > 0 /\ values.sunHeight <= 9000)
        /\ values.sunAngle \in {0, 36000} =>
               lightDirection = LightDirection(36000 - values.sunAngle,
                                               values.sunHeight)

\* C15 witness: azimuth 360 with the sun above the horizon, the vector
\* pointing down and along +Z as for azimuth 0.
C15_Witness ==
    /\ Lit
    /\ values.sunAngle = 36000 /\ values.sunHeight = 4500
    /\ lightDirection[2] < 0
    /\ lightDirection[1] = 0
    /\ lightDirection[3] > 70000000

\* C23: for every azimuth and every elevation, below the horizon included,
\* the light position has Y >= 5: it is above the ground plane and is not
\* the look-at target (the origin).
C23_LightAboveGround ==
    Lit =>
        /\ lightData.lightPos[2] >= 5 * ONE6
        /\ lightData.lightPos # << 0, 0, 0 >>

\* C23 witness: the sun 45 degrees below the horizon, the light held 26 above
\* the ground on the side the sun would be on.
C23_Witness ==
    /\ Lit
    /\ values.sunAngle = 18000 /\ values.sunHeight = -4500
    /\ lightDirection[2] > 0
    /\ lightData.lightPos[2] > 26 * ONE6
    /\ lightData.lightPos[3] > 21 * ONE6

(***************************************************************************)
(* The dial: createHourLines against the light direction of                *)
(* calculateLighting at the azimuths of the whole solar hours.             *)
(***************************************************************************)
\* Variant measured from north: without the quarter turn.
calculateSundialHourAnglesFromNorth(hour) == (hour - 6) * RDiv(PI8, 12)

\* calculateSundialHourAngles: ((hour - 6) * 15 * Math.PI) / 180 + Math.PI / 2,
\* radians at scale 10^8, for hour = 6..18.
calculateSundialHourAngles(hour) == (hour - 6) * RDiv(PI8, 12) + HALF_PI8

\* createHourLines: for each hour the points i = 0..20 of the ribbon's centre
\* line, (sin * t * length, 0.01, cos * t * length) with t = i / 20 and
\* length 8, at scale 10^6; the two vertices of step i are this point plus
\* and minus (-cos * width, 0, sin * width).
createHourLines ==
    [hour \in 6..18 |->
        LET angle == calculateSundialHourAngles(hour)
            sin == SinTurn(angle)
            cos == CosTurn(angle)
        IN  [hour   |-> hour,
             angle  |-> angle,
             centre |-> [i \in 0..20 |->
                            << RDiv(RDiv(sin, 100) * 8 * i, 20), 10000,
                               RDiv(RDiv(cos, 100) * 8 * i, 20) >>]]]

\* The azimuth's solar hour is a whole hour of the dial.
OnTheHour(azimuth) ==
    /\ SolarHourMin6(azimuth) % 60000000 = 0
    /\ SolarHourMin6(azimuth) \div 60000000 \in 6..18

DialHour(azimuth) == SolarHourMin6(azimuth) \div 60000000

\* The horizontal (x, z) parts of a light direction (scale 10^8) and of a
\* point of the dial (scale 10^6): their cross and dot products, scale 10^8.
HorizontalCross(lightDir, point) ==
    MulF(lightDir[1], point[3] * 100) - MulF(lightDir[3], point[1] * 100)

HorizontalDot(lightDir, point) ==
    MulF(lightDir[1], point[1] * 100) + MulF(lightDir[3], point[3] * 100)

\* C29: at the azimuth whose solar hour (azimuth - 90) / 15 + 6 is the whole
\* hour h of 6..18, and any elevation short of the vertical, every point of
\* hour line h lies from the gnomon base (the origin) along the horizontal
\* part of the light direction: the cross product of the two is zero and
\* their dot product is the point's distance 8 i / 20 times the length
\* cos(elevation) of the horizontal part, to 10^-5.
C29_HourLinesFollowLight ==
    (/\ Lit
     /\ OnTheHour(values.sunAngle)
     /\ values.sunHeight > -9000 /\ values.sunHeight < 9000) =>
        \A i \in 0..20 :
            LET point == createHourLines[DialHour(values.sunAngle)].centre[i]
            IN  /\ Abs(HorizontalCross(lightDirection, point)) <= 1000
                /\ Abs(HorizontalDot(lightDirection, point)
                         - RDiv(RDiv(CosDeg(values.sunHeight), 100) * 8 * i, 20) * 100)
                       <= 1000

\* C29 witness: azimuth 135 degrees is solar hour 9; the light goes towards
\* +x and -z, and hour line 9 ends at (5.66, 0.01, -5.66).
C29_Witness ==
    /\ Lit
    /\ values.sunAngle = 13500 /\ values.sunHeight = 4500
    /\ DialHour(values.sunAngle) = 9
    /\ lightDirection[1] > 0 /\ lightDirection[3] < 0
    /\ createHourLines[9].centre[20][1] > 5 * ONE6
    /\ createHourLines[9].centre[20][3] < -5 * ONE6

(***************************************************************************)
(* The calendar functions on their own: updateDisplay's date label and     *)
(* equationOfTime for every day of the slider.                             *)
(***************************************************************************)
DaysOfYear == 365

InitCalendar ==
    /\ sunAngleSlider = 18000
    /\ sunHeightSlider = 4500
    /\ monthDaySlider \in 1..DaysOfYear
    /\ autoRotateCheckbox = TRUE
    /\ enableShadowsCheckbox = TRUE
    /\ animationTime = 0
    /\ grassBlades = << >>
    /\ values = NoValues
    /\ lightDirection = << 0, 0, 0 >>
    /\ timeDisplay = ""
    /\ shadowTime = ""
    /\ glLog = << >>
    /\ frameCount = 0
    /\ shadowMapFrame = 0
    /\ fragment = NoFragment
    /\ shadowFactor = NoShadowFactor
    /\ lightData = NoLightData
    /\ gl_Position = << >>
    /\ gl = InitialGL
    /\ shadowProgram = "shadowProgram"
    /\ dayValue = ""
    /\ eot = 0
    /\ pc = "day"
    /\ InitExt

\* UIControls.updateDisplay: the date label of the day slider.
UpdateDisplay ==
    /\ pc = "day"
    /\ dayValue' = dayOfYearToDateString(monthDaySlider)
    /\ pc' = "labelled"
    /\ UNCHANGED << extVars, loopVars >>
    /\ UNCHANGED << domVars, appVars, values, lightDirection, timeDisplay,
                    shadowTime, frameVars, shadeVars, lightVars, glVars, eot >>

\* const eot = equationOfTime(dayOfYear)
EquationOfTime ==
    /\ pc = "labelled"
    /\ eot' = equationOfTime(monthDaySlider)
    /\ pc' = "timed"
    /\ UNCHANGED << extVars, loopVars >>
    /\ UNCHANGED << domVars, appVars, values, lightDirection, timeDisplay,
                    shadowTime, frameVars, shadeVars, lightVars, glVars,
                    dayValue >>

NextCalendar ==
    \/ UpdateDisplay
    \/ EquationOfTime

SpecCalendar == InitCalendar /\ [][NextCalendar]_vars

\* The month lengths of a non-leap year.
NonLeapYear == << 31, 28, 31, 30, 31, 30, 31, 31, 30, 31, 30, 31 >>

RECURSIVE DaysBefore(_)
DaysBefore(m) == IF m <= 1 THEN 0 ELSE DaysBefore(m - 1) + NonLeapYear[m - 1]

DateLabels == [d \in 1..DaysOfYear |-> dayOfYearToDateString(d)]

\* C14: for every day in 1..365 the label is "D Mon" with Mon the name of
\* the month of a non-leap year that contains the day and D, between 1 and
\* that month's length, the day within it; no other day has the same label.
C14_DateLabel ==
    pc \in {"labelled", "timed"} =>
        /\ \E m \in 1..12 :
              \E D \in 1..NonLeapYear[m] :
                  /\ monthDaySlider = DaysBefore(m) + D
                  /\ dayValue = NatToString(D) \o " " \o months[m]
        /\ \A d \in 1..DaysOfYear : d # monthDaySlider => DateLabels[d] # dayValue

\* C14 witness: day 60, the first day after the 59 days of January and
\* February, is labelled "1 Mar".
C14_Witness ==
    /\ pc = "labelled"
    /\ monthDaySlider = 60
    /\ dayValue = "1 Mar"

\* C16: for every day in 1..365 the equation of time is at most 20 minutes
\* in absolute value.
C16_EquationOfTimeBounded ==
    pc = "timed" => Abs(eot) <= 20 * ONE8

\* C16 witness: day 304, where the equation of time is largest, above 16.4
\* minutes.
C16_Witness ==
    /\ pc = "timed"
    /\ monthDaySlider = 304
    /\ eot > 1640000000
    /\ eot <= 20 * ONE8

(***************************************************************************)
(* Properties of the depth pass and of the state it leaves to the main     *)
(* pass                                                                    *)
(***************************************************************************)
\* Positions in the log of a call with an argument.
CallsOf(log, call, arg) ==
    {i \in 1..Len(log) : log[i].call = call /\ log[i].arg = arg}

\* The depth pass of the frame was entered and ran to its last call.
DepthPassCompleted(log) == DepthPassEntries(log) # {} /\ ~Thrown(log)

\* Calls that change the render target; the main pass makes none, so the
\* state the frame leaves is the one its main pass drew under.
TargetCalls(log) ==
    {i \in 1..Len(log) : log[i].call \in {"bindFramebuffer", "viewport"}}

\* Position of the first call of the main pass (setupWebGLState), 0 if the
\* frame has no main pass.
MainPassStart(log) ==
    IF CallsOf(log, "setupWebGLState", "") = {} THEN 0
    ELSE CHOOSE i \in CallsOf(log, "setupWebGLState", "") :
             \A j \in CallsOf(log, "setupWebGLState", "") : i <= j

\* C17: whenever the depth pass runs to completion it binds the shadow
\* framebuffer, sets the shadow viewport, clears before any caster is drawn,
\* draws the casters, rebinds the default framebuffer and restores the
\* canvas viewport, in this order; the main pass of that frame then starts
\* with the default framebuffer bound and the canvas-sized viewport.
C17_DepthPassOrder ==
    (Rendered /\ DepthPassCompleted(glLog)) =>
        /\ \E b \in CallsOf(glLog, "bindFramebuffer", "shadowFramebuffer"),
              v \in CallsOf(glLog, "viewport", "shadowMap"),
              c \in CallsOf(glLog, "clear", "COLOR_BUFFER_BIT|DEPTH_BUFFER_BIT"),
              r \in CallsOf(glLog, "bindFramebuffer", "null"),
              w \in CallsOf(glLog, "viewport", "canvas") :
                /\ b < v /\ v < c /\ c < r /\ r < w
                /\ \A d \in DepthDraws(glLog) : c < d /\ d < r
                /\ TargetCalls(glLog) = {b, v, r, w}
                /\ MainPassStart(glLog) > w
        /\ DepthDraws(glLog) # {}
        /\ gl.FRAMEBUFFER_BINDING = "null"
        /\ gl.VIEWPORT = "canvas"

\* C17 witness: a frame whose depth pass drew the casters and whose main
\* pass drew the scene.
C17_Witness ==
    /\ Rendered
    /\ Truthy(values.enableShadows)
    /\ shadowProgram = "shadowProgram"
    /\ DepthPassCompleted(glLog)
    /\ DepthDraws(glLog) # {}
    /\ MainDraws(glLog) # {}
    /\ gl.VIEWPORT = "canvas"

\* C18 as stated: every main pass is drawn with the default framebuffer
\* bound and the canvas-sized viewport, also after a frame whose depth pass
\* threw once the shadow framebuffer was bound.
C18_MainPassOnDefaultFramebuffer ==
    (Rendered /\ MainPassStart(glLog) > 0) =>
        /\ gl.FRAMEBUFFER_BINDING = "null"
        /\ gl.VIEWPORT = "canvas"

\* C18 failing state: the shadow program is null, an earlier frame's depth
\* pass threw, and a frame with shadows off draws the main scene with the
\* shadow framebuffer bound and the shadow map's viewport.
C18_Witness ==
    /\ Rendered
    /\ shadowProgram = "null"
    /\ values.enableShadows = "false"
    /\ DepthPassEntries(glLog) = {}
    /\ MainDraws(glLog) # {}
    /\ gl.FRAMEBUFFER_BINDING = "shadowFramebuffer"
    /\ gl.VIEWPORT = "shadowMap"

\* The values uniformMatrix4fv gave to a uniform in the frame.
MatricesSet(log, uniform) ==
    {log[i].value : i \in CallsOf(log, "uniformMatrix4fv", uniform)}

\* C19 as stated: in every frame in which the lighting pass samples the
\* shadow map, the depth pass of that frame ran with one light-space matrix,
\* the main program's u_lightViewProjectionMatrix holds the same matrix, and
\* it is lightProjection x lightView of that frame's azimuth and elevation.
C19_SameMatrixBothPasses ==
    (Rendered /\ SamplingDraws(glLog) # {}) =>
        /\ MatricesSet(glLog, "shadowProgram.u_lightViewProjectionMatrix") =
              {gl.program_u_lightViewProjectionMatrix}
        /\ gl.program_u_lightViewProjectionMatrix =
              calculateLighting(LightDirection(values.sunAngle, values.sunHeight))
                  .lightViewProjectionMatrix

\* C19 failing state: the lighting pass samples the shadow map in a frame
\* in which neither program was given the frame's matrix; the main program
\* still holds the zero matrix of a uniform never set.
C19_Witness ==
    /\ Rendered
    /\ SamplingDraws(glLog) # {}
    /\ MatricesSet(glLog, "shadowProgram.u_lightViewProjectionMatrix") = {}
    /\ MatricesSet(glLog, "program.u_lightViewProjectionMatrix") = {}
    /\ gl.program_u_lightViewProjectionMatrix = ZeroMatrix
    /\ lightData.lightViewProjectionMatrix # ZeroMatrix

\* C20 as stated: every time the depth pass runs, the gnomon is among the
\* meshes drawn into the shadow map.
C20_GnomonInDepthPass ==
    (Rendered /\ DepthPassCompleted(glLog)) =>
        \E d \in DepthDraws(glLog) : glLog[d].mesh = "gnomon"

\* C20 failing state: a completed depth pass that drew grass blades only,
\* in a frame whose main pass drew the gnomon.
C20_Witness ==
    /\ Rendered
    /\ DepthPassCompleted(glLog)
    /\ DepthDraws(glLog) # {}
    /\ \A d \in DepthDraws(glLog) : glLog[d].mesh = "grass"
    /\ \E m \in MainDraws(glLog) : glLog[m].mesh = "gnomon"

(***************************************************************************)
(* The frame loop: render invoked by requestAnimationFrame, with the passes *)
(* called with any values object, the shadow program linked or null, and    *)
(* the application's parts assigned or not.                                 *)
(***************************************************************************)
InitLoopAny ==
    /\ InitApp
    /\ InitSurface
    /\ InitMatrix
    /\ dateCall = NoDateCall
    /\ InitCamera
    /\ scheduled = 1
    /\ initialized \in BOOLEAN

\* render when !this.renderer || !this.uiControls || !this.cameraControls:
\* console.error, requestAnimationFrame(this.render), return.
RenderUninitialized ==
    /\ scheduled > 0
    /\ ~initialized
    /\ scheduled' = scheduled - 1 + RafCalls("uninitialized")
    /\ pc' = "returned early"
    /\ UNCHANGED << domVars, appVars, values, lightDirection, timeDisplay,
                    shadowTime, frameVars, shadeVars, lightVars, glVars,
                    calVars, extVars, initialized >>

NextLoop ==
    \/ ClickAutoRotate
    \/ RenderWith
    \/ RenderUninitialized

SpecLoop == InitLoopAny /\ [][NextLoop]_vars

\* C26: every invocation of render leaves exactly one invocation pending,
\* whichever way it ended: the loop neither stops nor forks.
C26_OneFramePending == scheduled = 1

\* C26 witness: the loop has run at least two frames, the depth pass of the
\* last one threw, and one more invocation is pending.
C26_Witness ==
    /\ Rendered
    /\ Thrown(glLog)
    /\ frameCount >= 2
    /\ scheduled = 1

(***************************************************************************)
(* Auto-rotation after any number of frames: the loop is entered with the   *)
(* animation time it has after whole turns of the dial, and just before.    *)
(***************************************************************************)
RotationTurns == 3

\* Hundredths: the start, mid turn, and two frames before the end of a turn
\* (15 * 12.00 = 180).
RotationTimes == {0, 600} \cup {1200 * k - 2 : k \in 1..RotationTurns}

InitRotate ==
    /\ sunAngleSlider = 18000
    /\ sunHeightSlider = 4500
    /\ monthDaySlider = 173
    /\ autoRotateCheckbox = TRUE
    /\ enableShadowsCheckbox = TRUE
    /\ animationTime \in RotationTimes
    /\ grassBlades \in {<< b >> : b \in BladeInputs}
    /\ values = NoValues
    /\ lightDirection = << 0, 0, 0 >>
    /\ timeDisplay = ""
    /\ shadowTime = ""
    /\ glLog = << >>
    /\ frameCount = 0
    /\ shadowMapFrame = 0
    /\ fragment = NoFragment
    /\ shadowFactor = NoShadowFactor
    /\ lightData = NoLightData
    /\ gl_Position = << >>
    /\ gl = InitialGL
    /\ shadowProgram = "shadowProgram"
    /\ dayValue = dayOfYearToDateString(173)
    /\ eot = 0
    /\ pc = "idle"
    /\ InitExt

NextRotate ==
    \/ InputSunAngle
    \/ ClickAutoRotate
    \/ Render

SpecRotate == InitRotate /\ [][NextRotate]_vars

\* C27: a frame with auto-rotation on advances animationTime by 0.01 and
\* writes the azimuth 90 + ((15 animationTime) mod 180), which is in
\* [90, 270); a frame with auto-rotation off, and every step that is not a
\* frame, leaves animationTime as it was, and such a frame takes the azimuth
\* from the slider.
C27_AutoRotateAzimuth ==
    [][IF frameCount' # frameCount
       THEN IF values'.autoRotate
            THEN /\ animationTime' = animationTime + 1
                 /\ values'.sunAngle = 9000 + ((15 * animationTime') % 18000)
                 /\ values'.sunAngle >= 9000
                 /\ values'.sunAngle < 27000
            ELSE /\ animationTime' = animationTime
                 /\ values'.sunAngle = sunAngleSlider
       ELSE animationTime' = animationTime]_vars

\* C27 witness: the frame at animation time 12.00, where 15 * 12 = 180 wraps
\* to 0 and the azimuth is back at 90 degrees.
C27_Witness ==
    /\ Rendered
    /\ values.autoRotate
    /\ animationTime = 1200
    /\ values.sunAngle = 9000
    /\ sunAngleSlider = 9000

(***************************************************************************)
(* The canvas and the shadow map: window resizes between frames whose       *)
(* render passes are called with any values object.                         *)
(***************************************************************************)
\* window.innerWidth x window.innerHeight at a resize event.
WindowSizes ==
    { InitialWindow, [width |-> 300, height |-> 150],
      [width |-> 2048, height |-> 2048], [width |-> 4096, height |-> 4096] }

InitResize ==
    /\ InitApp
    /\ canvas = InitialWindow
    /\ shadowTexture = [width |-> shadowMapSize, height |-> shadowMapSize]
    /\ shadowViewport \in ShadowViewports
    /\ InitMatrix
    /\ dateCall = NoDateCall
    /\ InitLoop
    /\ InitCamera

\* window 'resize' listener: resizeCanvas(canvas, gl) sets canvas.width and
\* canvas.height and calls gl.viewport(0, 0, canvas.width, canvas.height).
Resize ==
    /\ \E window \in WindowSizes : canvas' = window
    /\ gl' = [gl EXCEPT !.VIEWPORT = "canvas"]
    /\ pc' = "idle"
    /\ UNCHANGED << domVars, appVars, values, lightDirection, timeDisplay,
                    shadowTime, frameVars, shadeVars, lightVars,
                    shadowProgram, calVars, shadowTexture, shadowViewport,
                    matrixVars, dateCall, loopVars, cameraVars >>

NextResize ==
    \/ Resize
    \/ RenderWith

SpecResize == InitResize /\ [][NextResize]_vars

\* The rectangles gl.viewport was called with in the frame for a target.
ViewportsSet(log, target) ==
    {log[i].value : i \in CallsOf(log, "viewport", target)}

\* C21 as stated: the shadow map keeps the size initShadowMap allocated
\* (2048 x 2048) whatever the canvas size, and every viewport the depth pass
\* sets is exactly that size.
C21_DepthViewportIsShadowMapSize ==
    /\ shadowTexture = [width |-> shadowMapSize, height |-> shadowMapSize]
    /\ ViewportsSet(glLog, "shadowMap") \subseteq
           {<< 0, 0, shadowTexture.width, shadowTexture.height >>}

\* A depth pass ran to completion after the canvas was resized, and restored
\* the viewport to the resized canvas.
C21_Witness ==
    /\ DepthPassCompleted(glLog)
    /\ canvas # InitialWindow
    /\ ViewportsSet(glLog, "shadowMap") # {}
    /\ ViewportsSet(glLog, "canvas") = {<< 0, 0, canvas.width, canvas.height >>}

(***************************************************************************)
(* utils/math-utils.js on its own: multiply on arrays that may be the same  *)
(* array, and lookAt as calculateLighting calls it, for light positions     *)
(* given exactly.                                                           *)
(***************************************************************************)
Scaled(m) == [i \in 1..16 |-> m[i] * ONE6]

\* Whole-number matrices (products of them are exact at scale 10^6): the
\* identity, a translation, a quarter turn about Y, a scaling and two
\* matrices without structure.
MatrixInputs ==
    { Scaled(<< 1, 0, 0, 0,  0, 1, 0, 0,  0, 0, 1, 0,  0, 0, 0, 1 >>),
      Scaled(<< 1, 0, 0, 0,  0, 1, 0, 0,  0, 0, 1, 0,  2, -1, 3, 1 >>),
      Scaled(<< 0, 0, -1, 0,  0, 1, 0, 0,  1, 0, 0, 0,  0, 0, 0, 1 >>),
      Scaled(<< 2, 0, 0, 0,  0, 3, 0, 0,  0, 0, -1, 0,  0, 0, 0, 1 >>),
      Scaled(<< 1, 2, 3, 0,  -1, 0, 2, 1,  3, 1, -2, 0,  0, 2, 1, 1 >>),
      Scaled(<< 0, 1, -2, 3,  2, -3, 1, 0,  1, 1, 0, -1,  3, 0, 2, 1 >>) }

VectorInputs ==
    { << ONE6, 0, 0, 0 >>, << 0, ONE6, 0, ONE6 >>, << 0, 0, ONE6, ONE6 >>,
      << 2 * ONE6, -3 * ONE6, ONE6, ONE6 >> }

\* Light positions: straight above the origin (up parallel to eye - center),
\* a tenth off that axis, and the positions of two suns in the range of the
\* sliders.
EyeInputs ==
    { << 0, 35 * ONE6, 0 >>, << 0, 10 * ONE6, 0 >>, << 3500000, 35 * ONE6, 0 >>,
      << 0, 26213203, 21213203 >>, << -29885841, 7614672, 0 >> }

ArrayNames == {"out", "a", "b"}

InitMatrices ==
    /\ InitIdle
    /\ InitSurface
    /\ \E A \in MatrixInputs, B \in MatrixInputs :
           arrays = [out |-> ZeroMatrix, a |-> A, b |-> B]
    /\ called = NoCall
    /\ dateCall = NoDateCall
    /\ InitLoop
    /\ InitCamera
    /\ pc = "operands"

\* multiply(out, a, b) with out a third array, or a, or b.
Multiply ==
    /\ pc = "operands"
    /\ \E out \in ArrayNames :
           /\ called' = [out |-> out, a |-> arrays.a, b |-> arrays.b]
           /\ arrays' = multiplyInto(arrays, out, "a", "b")
    /\ pc' = "multiplied"
    /\ UNCHANGED << domVars, appVars, values, lightDirection, timeDisplay,
                    shadowTime, frameVars, shadeVars, lightVars, glVars,
                    calVars, surfaceVars, dateCall, loopVars, cameraVars >>

\* calculateLighting from lightPos on: lookAt(lightViewMatrix, lightPos,
\* [0, 0, 0], [0, 1, 0]), then multiply(lightViewProjectionMatrix,
\* lightProjectionMatrix, lightViewMatrix).
LightMatrices(lightPos) ==
    Only({ [NoLightData EXCEPT
               !.lightPos = lightPos,
               !.lightViewMatrix = lightViewMatrix,
               !.lightViewProjectionMatrix =
                   multiply(LightProjectionMatrix, lightViewMatrix)]
           : lightViewMatrix \in
                 {lookAt(lightPos, << 0, 0, 0 >>, << 0, ONE6, 0 >>)} })

LookAtLight ==
    /\ pc = "operands"
    /\ \E lightPos \in EyeInputs : lightData' = LightMatrices(lightPos)
    /\ pc' = "viewed"
    /\ UNCHANGED << domVars, appVars, values, lightDirection, timeDisplay,
                    shadowTime, frameVars, shadeVars, gl_Position, glVars,
                    calVars, extVars, loopVars >>

NextMatrices ==
    \/ Multiply
    \/ LookAtLight

SpecMatrices == InitMatrices /\ [][NextMatrices]_vars

\* The right, up and forward axes lookAt stored in the view matrix.
RightAxis(m) == << m[1], m[5], m[9] >>

UpAxis(m) == << m[2], m[6], m[10] >>

ForwardAxis(m) == << m[3], m[7], m[11] >>

\* up = [0, 1, 0] is parallel to eye - center for an eye on the Y axis.
UpParallel(eye) == eye[1] = 0 /\ eye[3] = 0

\* C24: when up is exactly parallel to eye - center, lookAt returns a view
\* matrix whose right and up axes are all zero (no other up vector is
\* substituted), and calculateLighting multiplies the projection by this
\* matrix as it is: the x and y rows of the light-space matrix are zero.
\* Off that axis the right and up axes are unit vectors (to within 10^-4).
C24_DegenerateLightView ==
    pc = "viewed" =>
        /\ lightData.lightViewProjectionMatrix =
               multiply(LightProjectionMatrix, lightData.lightViewMatrix)
        /\ UpParallel(lightData.lightPos) =>
               /\ RightAxis(lightData.lightViewMatrix) = << 0, 0, 0 >>
               /\ UpAxis(lightData.lightViewMatrix) = << 0, 0, 0 >>
               /\ ForwardAxis(lightData.lightViewMatrix) = << 0, ONE6, 0 >>
               /\ \A i \in {1, 5, 9, 13, 2, 6, 10, 14} :
                      lightData.lightViewProjectionMatrix[i] = 0
        /\ ~UpParallel(lightData.lightPos) =>
               /\ Abs(Length6(RightAxis(lightData.lightViewMatrix)) - ONE6) <= 100
               /\ Abs(Length6(UpAxis(lightData.lightViewMatrix)) - ONE6) <= 100

\* C24 witness: the light 35 above the origin; the view matrix keeps only
\* its forward axis and the translation along it.
C24_Witness ==
    /\ pc = "viewed"
    /\ lightData.lightPos = << 0, 35 * ONE6, 0 >>
    /\ RightAxis(lightData.lightViewMatrix) = << 0, 0, 0 >>
    /\ UpAxis(lightData.lightViewMatrix) = << 0, 0, 0 >>
    /\ lightData.lightViewMatrix[15] = -35 * ONE6
    /\ lightData.lightViewProjectionMatrix[1] = 0
    /\ lightData.lightViewProjectionMatrix[6] = 0

\* matrix * vec4, column-major.
Apply4(m, v) ==
    [r \in 1..4 |-> Mul6(m[r], v[1]) + Mul6(m[r + 4], v[2])
                      + Mul6(m[r + 8], v[3]) + Mul6(m[r + 12], v[4])]

\* multiply with a third array for out.
SeparateOut(A, B) ==
    multiplyInto([out |-> ZeroMatrix, a |-> A, b |-> B], "out", "a", "b").out

\* C30: multiply(out, a, b) leaves in out the column-major product a b
\* (applying out to a vector is applying b and then a), with the same 16
\* values when out is the array a or the array b as with a third array; an
\* operand that is not out is left as it was.
C30_MultiplyInPlace ==
    pc = "multiplied" =>
        /\ arrays[called.out] = SeparateOut(called.a, called.b)
        /\ arrays[called.out] = multiply(called.a, called.b)
        /\ \A v \in VectorInputs :
               Apply4(arrays[called.out], v) = Apply4(called.a, Apply4(called.b, v))
        /\ called.out # "a" => arrays.a = called.a
        /\ called.out # "b" => arrays.b = called.b

\* C30 witness: multiply(a, a, b) with a and b two matrices that do not
\* commute: a holds the product a b, which differs from b a and from the
\* old a.
C30_Witness ==
    /\ pc = "multiplied"
    /\ called.out = "a"
    /\ arrays.a = multiply(called.a, called.b)
    /\ arrays.a # multiply(called.b, called.a)
    /\ arrays.a # called.a
    /\ arrays.b = called.b

(***************************************************************************)
(* dayOfYearToDateString run statement by statement, for any integer day.   *)
(* An array read outside 0 .. length - 1 gives undefined; a number compared *)
(* with undefined compares as NaN, so `>` is false.                         *)
(***************************************************************************)
DaysBelow == 40

MaxDay == 800

DayArguments == (-DaysBelow)..MaxDay

\* Variant that wraps the index around the table.
ArrayGetWrapped(array, index) ==
    [undefined |-> FALSE, element |-> array[(index % Len(array)) + 1]]

\* array[index] for index >= 0 (index counted from 0).
ArrayGet(array, index) ==
    IF index < Len(array)
    THEN [undefined |-> FALSE, element |-> array[index + 1]]
    ELSE [undefined |-> TRUE, element |-> 0]

\* number > array element
JSGreater(number, read) == ~read.undefined /\ number > read.element

\* `${read}` of an array element that is a string
JSTemplate(read) == IF read.undefined THEN "undefined" ELSE read.element

InitDate ==
    /\ InitIdle
    /\ InitSurface
    /\ InitMatrix
    /\ \E day \in DayArguments :
           dateCall = [day |-> day, dayInMonth |-> day, month |-> 0,
                       returned |-> ""]
    /\ InitLoop
    /\ InitCamera
    /\ pc = "while"

\* while (dayInMonth > daysInMonth[month]) { dayInMonth -= daysInMonth[month]; month++; }
DateWhile ==
    /\ pc = "while"
    /\ JSGreater(dateCall.dayInMonth, ArrayGet(daysInMonth, dateCall.month))
    /\ dateCall' =
           [dateCall EXCEPT
               !.dayInMonth = @ - ArrayGet(daysInMonth, dateCall.month).element,
               !.month = @ + 1]
    /\ UNCHANGED << domVars, appVars, values, lightDirection, timeDisplay,
                    shadowTime, frameVars, shadeVars, lightVars, glVars,
                    calVars, surfaceVars, matrixVars, loopVars, cameraVars,
                    pc >>

\* return `${dayInMonth} ${months[month]}`
DateReturn ==
    /\ pc = "while"
    /\ ~JSGreater(dateCall.dayInMonth, ArrayGet(daysInMonth, dateCall.month))
    /\ dateCall' =
           [dateCall EXCEPT
               !.returned = IntToString(dateCall.dayInMonth) \o " "
                              \o JSTemplate(ArrayGet(months, dateCall.month))]
    /\ pc' = "returned"
    /\ UNCHANGED << domVars, appVars, values, lightDirection, timeDisplay,
                    shadowTime, frameVars, shadeVars, lightVars, glVars,
                    calVars, surfaceVars, matrixVars, loopVars, cameraVars >>

NextDate ==
    \/ DateWhile
    \/ DateReturn

\* The function's statements run one after the other until it returns.
SpecDate == InitDate /\ [][NextDate]_vars /\ WF_vars(NextDate)

\* C25: for every integer day, day <= 0 and day > 365 included, the call
\* returns after at most 12 turns of the loop, and what it returns is the
\* string "<dayInMonth> <month name or undefined>".
C25_DateStringTotal ==
    <>[](/\ pc = "returned"
         /\ dateCall.month \in 0..12
         /\ dateCall.returned = dayOfYearToDateString(dateCall.day)
         /\ dateCall.returned # "")

\* C25 witness: day 400 runs the month index past the table: the loop stops
\* at month 12 and the label is "35 undefined".
C25_Witness ==
    /\ pc = "returned"
    /\ dateCall.day = 400
    /\ dateCall.month = 12
    /\ dateCall.returned = "35 undefined"

(***************************************************************************)
(* controls/controls.js CameraControls: the canvas's mouse and wheel        *)
(* listeners, for any sequence of events.                                   *)
(***************************************************************************)
MaxCameraEvents == 4

\* e.clientX, e.clientY of a mouse event, and e.deltaY of a wheel event.
ClientXInputs == {0, 200}

ClientYInputs == {0, 100, 400}

WheelInputs == {-3000, -100, 100, 3000}

\* Variant without the lower limit.
ClampAngleXAbove(angle) == Min(800, angle)

\* Math.max(-80, Math.min(80, angle))
ClampAngleX(angle) == Max(-800, Min(800, angle))

\* Math.max(5, Math.min(30, distance))
ClampDistance(distance) == Max(500, Min(3000, distance))

InitCameraControls ==
    /\ InitIdle
    /\ InitSurface
    /\ InitMatrix
    /\ dateCall = NoDateCall
    /\ InitLoop
    /\ InitCamera
    /\ pc = "idle"

MouseDown ==
    /\ cameraEvents < MaxCameraEvents
    /\ \E clientX \in ClientXInputs, clientY \in ClientYInputs :
           /\ lastMouseX' = clientX
           /\ lastMouseY' = clientY
    /\ isDragging' = TRUE
    /\ cameraEvents' = cameraEvents + 1
    /\ pc' = "mousedown"
    /\ UNCHANGED << domVars, appVars, values, lightDirection, timeDisplay,
                    shadowTime, frameVars, shadeVars, lightVars, glVars,
                    calVars, surfaceVars, matrixVars, dateCall, loopVars,
                    cameraDistance, cameraAngleX, cameraAngleY >>

\* deltaX * 0.5 and deltaY * 0.5 degrees are 5 tenths per pixel.
MouseMove ==
    /\ cameraEvents < MaxCameraEvents
    /\ \E clientX \in ClientXInputs, clientY \in ClientYInputs :
           IF isDragging
           THEN /\ cameraAngleY' = cameraAngleY + (clientX - lastMouseX) * 5
                /\ cameraAngleX' =
                       ClampAngleX(cameraAngleX + (clientY - lastMouseY) * 5)
                /\ lastMouseX' = clientX
                /\ lastMouseY' = clientY
           ELSE UNCHANGED << cameraAngleX, cameraAngleY, lastMouseX, lastMouseY >>
    /\ cameraEvents' = cameraEvents + 1
    /\ pc' = "mousemove"
    /\ UNCHANGED << domVars, appVars, values, lightDirection, timeDisplay,
                    shadowTime, frameVars, shadeVars, lightVars, glVars,
                    calVars, surfaceVars, matrixVars, dateCall, loopVars,
                    cameraDistance, isDragging >>

MouseUp ==
    /\ cameraEvents < MaxCameraEvents
    /\ isDragging' = FALSE
    /\ cameraEvents' = cameraEvents + 1
    /\ pc' = "mouseup"
    /\ UNCHANGED << domVars, appVars, values, lightDirection, timeDisplay,
                    shadowTime, frameVars, shadeVars, lightVars, glVars,
                    calVars, surfaceVars, matrixVars, dateCall, loopVars,
                    cameraDistance, cameraAngleX, cameraAngleY, lastMouseX,
                    lastMouseY >>

\* e.deltaY * 0.01 is deltaY hundredths.
Wheel ==
    /\ cameraEvents < MaxCameraEvents
    /\ \E deltaY \in WheelInputs :
           cameraDistance' = ClampDistance(cameraDistance + deltaY)
    /\ cameraEvents' = cameraEvents + 1
    /\ pc' = "wheel"
    /\ UNCHANGED << domVars, appVars, values, lightDirection, timeDisplay,
                    shadowTime, frameVars, shadeVars, lightVars, glVars,
                    calVars, surfaceVars, matrixVars, dateCall, loopVars,
                    cameraAngleX, cameraAngleY, isDragging, lastMouseX,
                    lastMouseY >>

NextCamera ==
    \/ MouseDown
    \/ MouseMove
    \/ MouseUp
    \/ Wheel

SpecCamera == InitCameraControls /\ [][NextCamera]_vars

\* C28: after any sequence of events cameraDistance is in [5, 30] and
\* cameraAngleX in [-80, 80]; an angle changes only in a mousemove that
\* finds a drag in progress, the drag flag changes only in a mousedown or a
\* mouseup, and a wheel event changes nothing but the distance, which
\* nothing else changes.
C28_CameraLimits ==
    /\ [](/\ cameraDistance >= 500 /\ cameraDistance <= 3000
          /\ cameraAngleX >= -800 /\ cameraAngleX <= 800)
    /\ [][/\ (cameraAngleX' # cameraAngleX \/ cameraAngleY' # cameraAngleY) =>
                (isDragging /\ pc' = "mousemove")
          /\ isDragging' # isDragging => pc' \in {"mousedown", "mouseup"}
          /\ cameraDistance' # cameraDistance => pc' = "wheel"
          /\ pc' = "wheel" =>
                UNCHANGED << cameraAngleX, cameraAngleY, isDragging,
                             lastMouseX, lastMouseY >>]_vars

\* C28 witness: a drag upwards by 400 pixels from the initial 45 degrees
\* met the lower limit, and the wheel brought the camera to its nearest.
C28_Witness ==
    /\ cameraAngleX = -800
    /\ cameraDistance = 500
    /\ isDragging
====
